---- MODULE Spec2Model ----
(***************************************************************************)
(* Model of the comp-enrichment pipeline of the Newel appraiser            *)
(* (src/app.py): money normalisation, domain classification, the fetch     *)
(* and scrape-cache layer and enrich_matches_with_prices.                  *)
(*                                                                         *)
(* Representation.                                                         *)
(*  - A Python str that the code inspects character by character (host     *)
(*    names, money text) is a sequence of one-character strings.           *)
(*  - A Decimal is a record [u, c]: whole units and hundredths.            *)
(*  - A dict is a record of all its possible keys plus the set "keys" of   *)
(*    the keys that are present; a field whose key is absent holds the     *)
(*    None of its type.                                                    *)
(*  - None is NoneM (money text), NoneUrl (urls), NoneS (plain strings),   *)
(*    NoStatus (HTTP status).                                              *)
(***************************************************************************)
EXTENDS Integers, Sequences, FiniteSets, TLC

\* ------------------------------------------------------------------------
\* A local variable: On1(a, F) is F applied to the value of a, which is
\* computed once (On2, On3: of two and three values).
\* ------------------------------------------------------------------------
On1(a, F(_)) == CHOOSE r \in {F(x) : x \in {a}} : TRUE

On2(a, b, F(_, _)) == CHOOSE r \in {F(x, y) : x \in {a}, y \in {b}} : TRUE

On3(a, b, c, F(_, _, _)) == CHOOSE r \in {F(x, y, z) : x \in {a}, y \in {b}, z \in {c}} : TRUE

\* ------------------------------------------------------------------------
\* Characters and strings
\* ------------------------------------------------------------------------
Digits == <<"0", "1", "2", "3", "4", "5", "6", "7", "8", "9">>

LowerAlpha == <<"a", "b", "c", "d", "e", "f", "g", "h", "i", "j", "k", "l", "m",
                "n", "o", "p", "q", "r", "s", "t", "u", "v", "w", "x", "y", "z">>

UpperAlpha == <<"A", "B", "C", "D", "E", "F", "G", "H", "I", "J", "K", "L", "M",
                "N", "O", "P", "Q", "R", "S", "T", "U", "V", "W", "X", "Y", "Z">>

IsDigit(ch) == \E i \in 1..10 : Digits[i] = ch

DigitVal(ch) == (CHOOSE i \in 1..10 : Digits[i] = ch) - 1

\* str.lower() on one character
LowerChar(ch) ==
    IF \E i \in 1..26 : UpperAlpha[i] = ch
    THEN LowerAlpha[CHOOSE i \in 1..26 : UpperAlpha[i] = ch]
    ELSE ch

\* str.lower()
Lower(s) == [i \in 1..Len(s) |-> LowerChar(s[i])]

\* str.startswith / str.endswith
StartsWith(s, p) == Len(p) <= Len(s) /\ SubSeq(s, 1, Len(p)) = p

EndsWith(s, p) == Len(p) <= Len(s) /\ SubSeq(s, Len(s) - Len(p) + 1, Len(s)) = p

\* ------------------------------------------------------------------------
\* A url is [scheme, netloc, path, query]: netloc a character sequence, path
\* the sequence of its segments, query the title a search url asks for.
\* None values
\* ------------------------------------------------------------------------
NoneS == "<None>"

NoneM == <<>>

NoStatus == 0

NoneUrl == [scheme |-> NoneS, netloc |-> <<>>, path |-> <<>>, query |-> <<>>]

\* the empty string "" as a link
EmptyUrl == [scheme |-> "", netloc |-> <<>>, path |-> <<>>, query |-> <<>>]

\* a link that holds only white space
BlankUrl == [scheme |-> " ", netloc |-> <<>>, path |-> <<>>, query |-> <<>>]

\* ------------------------------------------------------------------------
\* 3) _hostname, 4) domain-based kind
\* ------------------------------------------------------------------------
Www == <<"w", "w", "w", ".">>

\* urlparse(url).netloc.lower(), with a leading "www." removed
Hostname(url) ==
    LET h == Lower(url.netloc)
    IN  IF StartsWith(h, Www) THEN SubSeq(h, 5, Len(h)) ELSE h

D_liveauctioneers == <<"l", "i", "v", "e", "a", "u", "c", "t", "i", "o", "n", "e", "e", "r", "s", ".", "c", "o", "m">>
D_bidsquare == <<"b", "i", "d", "s", "q", "u", "a", "r", "e", ".", "c", "o", "m">>
D_sothebys == <<"s", "o", "t", "h", "e", "b", "y", "s", ".", "c", "o", "m">>
D_christies == <<"c", "h", "r", "i", "s", "t", "i", "e", "s", ".", "c", "o", "m">>
D_1stdibs == <<"1", "s", "t", "d", "i", "b", "s", ".", "c", "o", "m">>
D_chairish == <<"c", "h", "a", "i", "r", "i", "s", "h", ".", "c", "o", "m">>
D_incollect == <<"i", "n", "c", "o", "l", "l", "e", "c", "t", ".", "c", "o", "m">>
D_rauantiques == <<"r", "a", "u", "a", "n", "t", "i", "q", "u", "e", "s", ".", "c", "o", "m">>

AUCTION_DOMAINS == {D_liveauctioneers, D_bidsquare, D_sothebys, D_christies}

RETAIL_DOMAINS == {D_1stdibs, D_chairish, D_incollect, D_rauantiques}

\* a faulty variant of _kind_from_domain: "d in host" for host.endswith(d)
_kind_from_domain_contains(url) ==
    LET host == Hostname(url)
        In(d) == \E i \in 1..Len(host) : StartsWith(SubSeq(host, i, Len(host)), d)
    IN  IF \E d \in AUCTION_DOMAINS : In(d) THEN "auction"
        ELSE IF \E d \in RETAIL_DOMAINS : In(d) THEN "retail"
        ELSE "other"

_kind_from_domain(url) ==
    LET host == Hostname(url)
    IN  IF \E d \in AUCTION_DOMAINS : EndsWith(host, d) THEN "auction"
        ELSE IF \E d \in RETAIL_DOMAINS : EndsWith(host, d) THEN "retail"
        ELSE "other"

\* a faulty variant of IsTarget: any host at all passes the domain test
IsTargetAnyHost(host) == host # <<>>

\* any(host.endswith(d) for d in (AUCTION_DOMAINS | RETAIL_DOMAINS))
IsTarget(host) == \E d \in AUCTION_DOMAINS \cup RETAIL_DOMAINS : EndsWith(host, d)

\* ------------------------------------------------------------------------
\* 6) Money sanitisation
\* ------------------------------------------------------------------------
\* Decimal values: u whole units, c hundredths
Dec(u, c) == [u |-> u, c |-> c]

NoneD == [u |-> -1, c |-> 0]

DecLess(a, b) == a.u < b.u \/ (a.u = b.u /\ a.c < b.c)

\* min() of a non-empty list of Decimals
MinDec(ds) ==
    ds[CHOOSE i \in 1..Len(ds) : \A j \in 1..Len(ds) : ~DecLess(ds[j], ds[i])]

\* the value of a run of digit characters
RECURSIVE DigitsValue(_)
DigitsValue(s) ==
    IF s = <<>> THEN 0
    ELSE 10 * DigitsValue(SubSeq(s, 1, Len(s) - 1)) + DigitVal(s[Len(s)])

\* index of the first digit of s at or after i; Len(s) + 1 when there is none
RECURSIVE FirstDigit(_, _)
FirstDigit(s, i) ==
    IF i > Len(s) THEN i
    ELSE IF IsDigit(s[i]) THEN i
    ELSE FirstDigit(s, i + 1)

DigitAt(s, i) == i >= 1 /\ i <= Len(s) /\ IsDigit(s[i])

CharAt(s, i, ch) == i >= 1 /\ i <= Len(s) /\ s[i] = ch

\* [0-9]{1,3} read greedily at i: the index after it
HeadEnd(s, i) ==
    IF DigitAt(s, i + 1)
    THEN (IF DigitAt(s, i + 2) THEN i + 3 ELSE i + 2)
    ELSE i + 1

\* (?:,[0-9]{3})* read greedily at i: the index after it
RECURSIVE CommaGroupsEnd(_, _)
CommaGroupsEnd(s, i) ==
    IF CharAt(s, i, ",") /\ DigitAt(s, i + 1) /\ DigitAt(s, i + 2) /\ DigitAt(s, i + 3)
    THEN CommaGroupsEnd(s, i + 4)
    ELSE i

\* (?:\.[0-9]{1,2})? read greedily at i: the index after it
FractionEnd(s, i) ==
    IF CharAt(s, i, ".") /\ DigitAt(s, i + 1)
    THEN (IF DigitAt(s, i + 2) THEN i + 3 ELSE i + 2)
    ELSE i

\* The text of group 1 of the first alternative of the money patterns,
\*   [0-9]{1,3}(?:,[0-9]{3})*(?:\.[0-9]{1,2})?
\* read at the digit s[i].  Nothing follows the group in MONEY_CAPTURE_RE, so
\* the first alternative always succeeds there and the second one,
\* [0-9]+(...)?, is never tried.
CommaNumberAt(s, i) ==
    SubSeq(s, i, FractionEnd(s, CommaGroupsEnd(s, HeadEnd(s, i))) - 1)

\* MONEY_CAPTURE_RE.search(s).group(1); <<>> when there is no match.  Every
\* part of the pattern before the group is optional and holds no digit, so
\* the group starts at the first digit of s.
MONEY_CAPTURE_RE(s) ==
    On1(FirstDigit(s, 1), LAMBDA i : IF i > Len(s) THEN <<>> ELSE CommaNumberAt(s, i))

\* s.replace(",", "")
RECURSIVE RemoveCommas(_)
RemoveCommas(s) ==
    IF s = <<>> THEN <<>>
    ELSE IF Head(s) = "," THEN RemoveCommas(Tail(s))
    ELSE <<Head(s)>> \o RemoveCommas(Tail(s))

\* index of the first "." of s; Len(s) + 1 when there is none
RECURSIVE DotIndex(_, _)
DotIndex(s, i) ==
    IF i > Len(s) THEN i
    ELSE IF s[i] = "." THEN i
    ELSE DotIndex(s, i + 1)

\* Decimal(text) for digits with an optional fraction of one or two digits
DecimalOf(s) ==
    LET dot  == DotIndex(s, 1)
        frac == SubSeq(s, dot + 1, Len(s))
    IN  Dec(DigitsValue(SubSeq(s, 1, dot - 1)),
            IF Len(frac) = 0 THEN 0
            ELSE IF Len(frac) = 1 THEN 10 * DigitsValue(frac)
            ELSE DigitsValue(frac))

\* index of the first ">" of s at or after j, or 0
RECURSIVE TagClose(_, _)
TagClose(s, j) ==
    IF j > Len(s) THEN 0
    ELSE IF s[j] = ">" THEN j
    ELSE TagClose(s, j + 1)

\* re.sub(r"<[^>]+>", "", s)
RECURSIVE StripTags(_)
StripTags(s) ==
    IF s = <<>> THEN <<>>
    ELSE IF Head(s) = "<" /\ Len(s) >= 3 /\ s[2] # ">" /\ TagClose(s, 3) # 0
         THEN StripTags(SubSeq(s, TagClose(s, 3) + 1, Len(s)))
    ELSE <<Head(s)>> \o StripTags(Tail(s))

\* Values handed to _to_decimal_money: None, a number (int, float, Decimal)
\* or a str
NoneV == [t |-> "none", d |-> NoneD, s |-> <<>>]

NumV(d) == [t |-> "num", d |-> d, s |-> <<>>]

StrV(s) == [t |-> "str", d |-> NoneD, s |-> s]

_to_decimal_money(v) ==
    IF v.t = "none" THEN NoneD
    ELSE IF v.t = "num" THEN v.d
    ELSE On1(MONEY_CAPTURE_RE(StripTags(v.s)), LAMBDA g :
             IF g = <<>> THEN NoneD ELSE DecimalOf(RemoveCommas(g)))

\* the decimal digits of n
RECURSIVE NatChars(_)
NatChars(n) ==
    IF n < 10 THEN <<Digits[n + 1]>>
    ELSE NatChars(n \div 10) \o <<Digits[(n % 10) + 1]>>

\* format(n, ",") for n >= 0
RECURSIVE Grouped(_)
Grouped(n) ==
    IF n < 1000 THEN NatChars(n)
    ELSE Grouped(n \div 1000) \o <<",">>
         \o <<Digits[((n \div 100) % 10) + 1], Digits[((n \div 10) % 10) + 1], Digits[(n % 10) + 1]>>

\* a faulty variant of _format_money: no thousands separators
_format_money_plain(d) ==
    IF d.c = 0
    THEN <<"$">> \o NatChars(d.u)
    ELSE <<"$">> \o NatChars(d.u) \o <<".">>
         \o <<Digits[(d.c \div 10) + 1], Digits[(d.c % 10) + 1]>>

_format_money(d) ==
    IF d.c = 0
    THEN <<"$">> \o Grouped(d.u)
    ELSE <<"$">> \o Grouped(d.u) \o <<".">>
         \o <<Digits[(d.c \div 10) + 1], Digits[(d.c % 10) + 1]>>

MinMoney == 1

MaxMoney == 200000000

\* a faulty variant of _sanitize_money: the band is open at both ends
_sanitize_money_open(v) ==
    On1(_to_decimal_money(v), LAMBDA d :
        IF d = NoneD THEN NoneM
        ELSE IF ~DecLess(Dec(MinMoney, 0), d) \/ ~DecLess(d, Dec(MaxMoney, 0)) THEN NoneM
        ELSE _format_money(d))

_sanitize_money(v) ==
    On1(_to_decimal_money(v), LAMBDA d :
        IF d = NoneD THEN NoneM
        ELSE IF DecLess(d, Dec(MinMoney, 0)) \/ DecLess(Dec(MaxMoney, 0), d) THEN NoneM
        ELSE _format_money(d))

\* a faulty variant of _sanitize_range: the bounds are not put in order
_sanitize_range_unordered(lo, hi) ==
    On2(_to_decimal_money(lo), _to_decimal_money(hi), LAMBDA dlo, dhi :
        IF dlo = NoneD \/ dhi = NoneD THEN <<NoneM, NoneM>>
        ELSE IF DecLess(dlo, Dec(MinMoney, 0)) \/ DecLess(dhi, Dec(MinMoney, 0))
             THEN <<NoneM, NoneM>>
        ELSE <<_format_money(dlo), _format_money(dhi)>>)

\* the pair (low, high) as <<low, high>>
_sanitize_range(lo, hi) ==
    On2(_to_decimal_money(lo), _to_decimal_money(hi), LAMBDA dlo, dhi :
        LET slo == IF DecLess(dhi, dlo) THEN dhi ELSE dlo
            shi == IF DecLess(dhi, dlo) THEN dlo ELSE dhi
        IN  IF dlo = NoneD \/ dhi = NoneD THEN <<NoneM, NoneM>>
            ELSE IF DecLess(slo, Dec(MinMoney, 0)) \/ DecLess(shi, Dec(MinMoney, 0))
                 THEN <<NoneM, NoneM>>
            ELSE <<_format_money(slo), _format_money(shi)>>)

\* ------------------------------------------------------------------------
\* Pages.  An HTML document is a sequence of segments:
\*   [k |-> "text", s]                  character data
\*   [k |-> "tag"]                      any other markup tag
\*   [k |-> "script", id, ok, pairs]    a <script> block holding JSON: ok is
\*        whether json.loads accepts it, pairs the (key, value) members met
\*        by a depth-first walk, a value being a number literal
\*        [t |-> "num", s], a string [t |-> "str", s] or an object
\*        {"amount": <number literal>} [t |-> "obj", s]
\*   [k |-> "a", href, img, words]      an <a href> element: href joined to
\*        the base url, img the src of its first <img> (NoImg when none),
\*        words the words of the 200 characters around it
\*   [k |-> "url", url]                 an absolute product url in the source
\* The pages of this model are shorter than the 1,200,000 / 350,000
\* character caps and than the 10,000 character keyword windows.
\* ------------------------------------------------------------------------
Space == <<" ">>

RECURSIVE SkipWs(_, _)
SkipWs(s, i) == IF CharAt(s, i, " ") THEN SkipWs(s, i + 1) ELSE i

\* re.sub(r"\s+", " ", t)
RECURSIVE CollapseWs(_)
CollapseWs(s) ==
    IF Len(s) < 2 THEN s
    ELSE IF s[1] = " " /\ s[2] = " " THEN CollapseWs(Tail(s))
    ELSE <<s[1]>> \o CollapseWs(Tail(s))

RECURSIVE RawText(_)
RawText(html) ==
    IF html = <<>> THEN <<>>
    ELSE (IF Head(html).k = "text" THEN Head(html).s ELSE Space) \o RawText(Tail(html))

\* script and style blocks and tags become one space each, white space is
\* collapsed
_clean_html_text(html) == CollapseWs(RawText(html))

\* str.find on lower-cased text, 1-based; 0 when absent
RECURSIVE Find(_, _, _)
Find(s, sub, i) ==
    IF i + Len(sub) - 1 > Len(s) THEN 0
    ELSE IF Lower(SubSeq(s, i, i + Len(sub) - 1)) = sub THEN i
    ELSE Find(s, sub, i + 1)

W_estimate == <<"e", "s", "t", "i", "m", "a", "t", "e">>

W_reserve == <<"r", "e", "s", "e", "r", "v", "e">>

\* the en dash character U+2013
EnDash == "ndash"

IsWordChar(ch) ==
    \/ IsDigit(ch)
    \/ ch = "_"
    \/ \E i \in 1..26 : LowerAlpha[i] = ch \/ UpperAlpha[i] = ch

\* (?:-|EnDash|to) at i, ignoring case: the index after it, or 0
SepEnd(s, i) ==
    IF CharAt(s, i, "-") \/ CharAt(s, i, EnDash) THEN i + 1
    ELSE IF i >= 1 /\ i + 1 <= Len(s) /\ Lower(SubSeq(s, i, i + 1)) = <<"t", "o">> THEN i + 2
    ELSE 0

\* (?:USD|US\$)\b at i, ignoring case
UsdAt(s, i) ==
    /\ i >= 1
    /\ i + 2 <= Len(s)
    /\ \/ /\ Lower(SubSeq(s, i, i + 2)) = <<"u", "s", "d">>
          /\ (i + 3 > Len(s) \/ ~IsWordChar(s[i + 3]))
       \/ /\ Lower(SubSeq(s, i, i + 2)) = <<"u", "s", "$">>
          /\ i + 3 <= Len(s)
          /\ IsWordChar(s[i + 3])

\* \s*(?:-|EnDash|to)\s*<dollar?>\s*(number) after a first number that ends
\* before index i: the second group, or <<>>
SecondOfRange(s, i, dollar) ==
    On1(SepEnd(s, SkipWs(s, i)), LAMBDA b :
    On1(SkipWs(s, b), LAMBDA c :
    On1(IF dollar THEN SkipWs(s, c + 1) ELSE c, LAMBDA e :
        IF b = 0 THEN <<>>
        ELSE IF dollar /\ ~CharAt(s, c, "$") THEN <<>>
        ELSE IF ~DigitAt(s, e) THEN <<>>
        ELSE CommaNumberAt(s, e))))

\* DOLLAR_RANGE_RE matched at i: <<group 1, group 2>>, or <<>>
DollarRangeAt(s, i) ==
    On1(SkipWs(s, i + 1), LAMBDA a :
        IF ~CharAt(s, i, "$") \/ ~DigitAt(s, a) THEN <<>>
        ELSE On1(CommaNumberAt(s, a), LAMBDA g1 :
             On1(SecondOfRange(s, a + Len(g1), TRUE), LAMBDA g2 :
                 IF g2 = <<>> THEN <<>> ELSE <<g1, g2>>)))

RECURSIVE DollarRangeSearch(_, _)
DollarRangeSearch(s, i) ==
    IF i > Len(s) THEN <<>>
    ELSE On1(DollarRangeAt(s, i), LAMBDA m :
             IF m # <<>> THEN m ELSE DollarRangeSearch(s, i + 1))

DOLLAR_RANGE_RE(s) == DollarRangeSearch(s, 1)

\* USD_RANGE_RE matched at i
UsdRangeAt(s, i) ==
    IF ~DigitAt(s, i) THEN <<>>
    ELSE On1(CommaNumberAt(s, i), LAMBDA g1 :
         On1(SecondOfRange(s, i + Len(g1), FALSE), LAMBDA g2 :
         On1(SkipWs(s, SepEnd(s, SkipWs(s, i + Len(g1)))), LAMBDA e :
             IF g2 = <<>> THEN <<>>
             ELSE IF ~UsdAt(s, SkipWs(s, e + Len(g2))) THEN <<>>
             ELSE <<g1, g2>>)))

RECURSIVE UsdRangeSearch(_, _)
UsdRangeSearch(s, i) ==
    IF i > Len(s) THEN <<>>
    ELSE On1(UsdRangeAt(s, i), LAMBDA m :
             IF m # <<>> THEN m ELSE UsdRangeSearch(s, i + 1))

USD_RANGE_RE(s) == UsdRangeSearch(s, 1)

EstimateGap == 60

\* (?:estimate[^0-9]{0,60})\b(number)\s*(?:-|EnDash|to)\s*(number) with the word
\* "estimate" at i
EstimateRangeAt(s, i) ==
    On2(i + Len(W_estimate), FirstDigit(s, i + Len(W_estimate)), LAMBDA q, d :
        IF d > Len(s) \/ d = q \/ d - q > EstimateGap THEN <<>>
        ELSE IF IsWordChar(s[d - 1]) THEN <<>>
        ELSE On1(CommaNumberAt(s, d), LAMBDA g1 :
             On1(SecondOfRange(s, d + Len(g1), FALSE), LAMBDA g2 :
                 IF g2 = <<>> THEN <<>> ELSE <<g1, g2>>)))

RECURSIVE EstimateRangeSearch(_, _)
EstimateRangeSearch(s, i) ==
    On1(Find(s, W_estimate, i), LAMBDA e :
        IF e = 0 THEN <<>>
        ELSE On1(EstimateRangeAt(s, e), LAMBDA m :
                 IF m # <<>> THEN m ELSE EstimateRangeSearch(s, e + 1)))

KeywordWindow == 10000

\* text[max(0, idx - 10000): idx + 10000] around the 1-based index p
Window(s, p) ==
    LET lo == IF p - KeywordWindow < 1 THEN 1 ELSE p - KeywordWindow
        hi == IF p + KeywordWindow - 1 > Len(s) THEN Len(s) ELSE p + KeywordWindow - 1
    IN  SubSeq(s, lo, hi)

\* the first of the three range patterns that matches w: <<g1, g2>> or <<>>
RangeInWindow(w) ==
    On1(DOLLAR_RANGE_RE(w), LAMBDA m1 :
        IF m1 # <<>> THEN m1
        ELSE On1(USD_RANGE_RE(w), LAMBDA m2 :
                 IF m2 # <<>> THEN m2 ELSE EstimateRangeSearch(w, 1)))

_extract_text_estimate_range(text) ==
    On1(Find(text, W_estimate, 1), LAMBDA idx :
    On1(IF idx # 0 THEN Window(text, idx) ELSE text, LAMBDA w :
    On1(RangeInWindow(w), LAMBDA m1 :
    On1(IF m1 # <<>> \/ idx = 0 THEN m1 ELSE RangeInWindow(text), LAMBDA m :
        IF m # <<>> THEN _sanitize_range(StrV(m[1]), StrV(m[2]))
        ELSE <<NoneM, NoneM>>))))

_extract_reserve_from_text(text) ==
    On1(Find(text, W_reserve, 1), LAMBDA pos :
        IF pos = 0 THEN NoneM
        ELSE On1(MONEY_CAPTURE_RE(Window(text, pos)), LAMBDA m :
                 IF m = <<>> THEN NoneM ELSE _sanitize_money(StrV(m))))

\* ------------------------------------------------------------------------
\* 9) Structured estimates
\* ------------------------------------------------------------------------
\* str(k).lower() for the member names of the model
KeyLower(k) ==
    CASE k = "lowEstimate"  -> "lowestimate"
      [] k = "highEstimate" -> "highestimate"
      [] k = "estimateLow"  -> "estimatelow"
      [] k = "estimateHigh" -> "estimatehigh"
      [] OTHER -> k

LowKeys == {"lowestimate", "estimatelow", "estimate_low", "low_estimate"}

HighKeys == {"highestimate", "estimatehigh", "estimate_high", "high_estimate"}

\* the members of every <script> of the page, in document order
RECURSIVE AllPairs(_)
AllPairs(html) ==
    IF html = <<>> THEN <<>>
    ELSE (IF Head(html).k = "script" THEN Head(html).pairs ELSE <<>>) \o AllPairs(Tail(html))

\* NEXT_DATA_RE.search + json.loads: the members of the first __NEXT_DATA__
\* script, <<>> for None (no such script, empty, or not JSON)
RECURSIVE _parse_next_data_json(_)
_parse_next_data_json(html) ==
    IF html = <<>> THEN <<>>
    ELSE IF Head(html).k = "script" /\ Head(html).id = "__NEXT_DATA__"
         THEN (IF Head(html).ok THEN Head(html).pairs ELSE <<>>)
    ELSE _parse_next_data_json(Tail(html))

\* what _to_decimal_money is given for a JSON value: the number itself, the
\* string, or str() of the object, whose first digits are its amount
WalkValue(v) == IF v.t = "num" THEN NumV(DecimalOf(v.s)) ELSE StrV(v.s)

RECURSIVE _walk_find_numbers(_, _)
_walk_find_numbers(pairs, keys) ==
    IF pairs = <<>> THEN <<>>
    ELSE On1(_to_decimal_money(WalkValue(Head(pairs).v)), LAMBDA d :
             (IF KeyLower(Head(pairs).key) \in keys /\ d # NoneD THEN <<d>> ELSE <<>>)
             \o _walk_find_numbers(Tail(pairs), keys))

\* index after [0-9]+ read at i
RECURSIVE DigitsEnd(_, _)
DigitsEnd(s, i) == IF DigitAt(s, i) THEN DigitsEnd(s, i + 1) ELSE i

\* [0-9]+(?:\.[0-9]{1,2})? read at the start of s
PlainNumber(s) == SubSeq(s, 1, FractionEnd(s, DigitsEnd(s, 1)) - 1)

\* index after [0-9,]+ read at i
RECURSIVE DigitsCommasEnd(_, _)
DigitsCommasEnd(s, i) ==
    IF DigitAt(s, i) \/ CharAt(s, i, ",") THEN DigitsCommasEnd(s, i + 1) ELSE i

\* [0-9,]+(?:\.[0-9]{1,2})? read at the start of s
PlainCommaNumber(s) == SubSeq(s, 1, FractionEnd(s, DigitsCommasEnd(s, 1)) - 1)

\* "<key>"\s*:\s*\{[^}]*"amount"\s*:\s*([0-9]+(?:\.[0-9]{1,2})?) over the
\* raw page, ignoring case: group 1 of the first match, or <<>>
RECURSIVE AmountOfKey(_, _)
AmountOfKey(pairs, key) ==
    IF pairs = <<>> THEN <<>>
    ELSE On1(IF KeyLower(Head(pairs).key) = key /\ Head(pairs).v.t = "obj"
             THEN PlainNumber(Head(pairs).v.s) ELSE <<>>, LAMBDA g :
             IF g # <<>> THEN g ELSE AmountOfKey(Tail(pairs), key))

\* a faulty variant of "a or b": the second operand wins when it is set
OrSecond(a, b) == IF b # NoneM THEN b ELSE a

Or(a, b) == IF a # NoneM THEN a ELSE b

\* <<low, high, reserve>>
_extract_liveauctioneers_estimates(html) ==
    On1(_parse_next_data_json(html), LAMBDA nd :
    On2(_walk_find_numbers(nd, LowKeys), _walk_find_numbers(nd, HighKeys), LAMBDA lows, highs :
    On1(IF nd # <<>> /\ lows # <<>> /\ highs # <<>>
        THEN <<_sanitize_money(NumV(MinDec(lows))), _sanitize_money(NumV(MinDec(highs)))>>
        ELSE <<NoneM, NoneM>>, LAMBDA one :
    On2(AmountOfKey(AllPairs(html), "lowestimate"), AmountOfKey(AllPairs(html), "highestimate"),
        LAMBDA mlo, mhi :
    On1(IF one[1] = NoneM \/ one[2] = NoneM
        THEN <<IF mlo # <<>> THEN Or(one[1], _sanitize_money(StrV(mlo))) ELSE one[1],
               IF mhi # <<>> THEN Or(one[2], _sanitize_money(StrV(mhi))) ELSE one[2]>>
        ELSE one, LAMBDA two :
    On1(_clean_html_text(html), LAMBDA text :
    On1(IF two[1] = NoneM \/ two[2] = NoneM
        THEN _extract_text_estimate_range(text) ELSE <<NoneM, NoneM>>, LAMBDA r :
        <<Or(two[1], r[1]), Or(two[2], r[2]), _extract_reserve_from_text(text)>>)))))))

\* the numbers the bidsquare key scan finds: a number literal, or a quoted
\* string that is wholly [0-9,]+(\.[0-9]{1,2})?
RECURSIVE KeyScan(_, _)
KeyScan(pairs, keys) ==
    IF pairs = <<>> THEN <<>>
    ELSE On1(Head(pairs).v, LAMBDA v :
         On1(IF v.t = "num" THEN PlainCommaNumber(v.s)
             ELSE IF v.t = "str" /\ PlainCommaNumber(v.s) = v.s THEN v.s
             ELSE <<>>, LAMBDA g :
         On1(_to_decimal_money(StrV(g)), LAMBDA d :
             (IF KeyLower(Head(pairs).key) \in keys /\ g # <<>> /\ d # NoneD
              THEN <<d>> ELSE <<>>)
             \o KeyScan(Tail(pairs), keys))))

_extract_bidsquare_estimates(html) ==
    On1(_clean_html_text(html), LAMBDA text :
    On1(_extract_text_estimate_range(text), LAMBDA r :
    On2(KeyScan(AllPairs(html), LowKeys), KeyScan(AllPairs(html), HighKeys), LAMBDA lows, highs :
    On1(IF (r[1] = NoneM \/ r[2] = NoneM) /\ lows # <<>> /\ highs # <<>>
        THEN <<_sanitize_money(NumV(MinDec(lows))), _sanitize_money(NumV(MinDec(highs)))>>
        ELSE <<NoneM, NoneM>>, LAMBDA k :
        <<Or(r[1], k[1]), Or(r[2], k[2]), _extract_reserve_from_text(text)>>))))

_extract_sothebys_christies_estimates(html) ==
    On1(_clean_html_text(html), LAMBDA text :
    On1(_extract_text_estimate_range(text), LAMBDA r :
        <<r[1], r[2], _extract_reserve_from_text(text)>>))

\* None of the extractors raises on a page of this model, so the two except
\* branches are not taken.
_get_auction_estimates_by_host(host, html) ==
    IF EndsWith(host, D_liveauctioneers) THEN _extract_liveauctioneers_estimates(html)
    ELSE IF EndsWith(host, D_bidsquare) THEN _extract_bidsquare_estimates(html)
    ELSE _extract_sothebys_christies_estimates(html)

\* ------------------------------------------------------------------------
\* 5) Gemini client, 10) Gemini fallback extraction
\* A model call is g = [secret, tries]: secret is whether GEMINI_API_KEY is
\* configured, tries[i] = [ok, data] the outcome of the i-th generate_content
\* + json.loads, data = [isdict, low_estimate, high_estimate, reserve,
\* retail_price] the JSON value returned.
\* ------------------------------------------------------------------------
GEMINI_RETRIES == 3

NoData == [isdict |-> FALSE, low_estimate |-> NoneV, high_estimate |-> NoneV,
           reserve |-> NoneV, retail_price |-> NoneV]

RECURSIVE GeminiAttempts(_, _, _)
GeminiAttempts(tries, i, retries) ==
    IF i > retries THEN [raised |-> TRUE, data |-> NoData, calls |-> retries]
    ELSE IF tries[i].ok THEN [raised |-> FALSE, data |-> tries[i].data, calls |-> i]
    ELSE GeminiAttempts(tries, i + 1, retries)

\* [raised, data, calls]: calls counts the generate_content calls made
_gemini_json(g) ==
    IF ~g.secret THEN [raised |-> TRUE, data |-> NoData, calls |-> 0]
    ELSE GeminiAttempts(g.tries, 1, GEMINI_RETRIES)

\* [raised, calls, low, high, reserve]; data.get raises on a non-dict value
_gemini_extract_auction_from_text(g) ==
    On1(_gemini_json(g), LAMBDA r :
        IF r.raised \/ ~r.data.isdict
        THEN [raised |-> TRUE, calls |-> r.calls, low |-> NoneM, high |-> NoneM,
              reserve |-> NoneM]
        ELSE On1([i \in 1..3 |-> _sanitize_money(<<r.data.low_estimate, r.data.high_estimate,
                                                   r.data.reserve>>[i])], LAMBDA a :
                 [raised |-> FALSE, calls |-> r.calls, low |-> a[1], high |-> a[2],
                  reserve |-> a[3]]))

\* [raised, calls, retail_price]
_gemini_extract_retail_from_text(g) ==
    On1(_gemini_json(g), LAMBDA r :
        IF r.raised \/ ~r.data.isdict
        THEN [raised |-> TRUE, calls |-> r.calls, retail_price |-> NoneM]
        ELSE [raised |-> FALSE, calls |-> r.calls,
              retail_price |-> _sanitize_money(r.data.retail_price)])

\* ------------------------------------------------------------------------
\* 11) Chairish product-link resolution
\* An image url is [dirs, base, width, height]: the directory segments, the
\* last path segment as characters, and the width= / height= query values
\* (0 when absent).
\* ------------------------------------------------------------------------
NoImg == [dirs |-> <<>>, base |-> <<>>, width |-> 0, height |-> 0]

ThumbDirs == {"thumbs", "thumbnail", "small"}

_is_likely_thumbnail_url(img) ==
    /\ img # NoImg
    /\ \/ img.width = 265
       \/ img.height = 265
       \/ (img.width > 0 /\ img.height > 0 /\ img.width < 500)
       \/ \E i \in 1..Len(img.dirs) : img.dirs[i] \in ThumbDirs

\* os.path.basename of the url without query and fragment
_basename_from_url(img) == IF img.dirs = <<>> /\ img.base = <<>> THEN <<>> ELSE img.base

\* re.findall(r'\w{4,}', title.lower()), title a sequence of words
RECURSIVE TitleWords(_)
TitleWords(title) ==
    IF title = <<>> THEN <<>>
    ELSE (IF Len(Head(title)) >= 4 THEN <<Lower(Head(title))>> ELSE <<>>)
         \o TitleWords(Tail(title))

_score_candidate_by_image_and_title(words, img, match_base, title_words) ==
    On2(Lower(_basename_from_url(img)), Lower(match_base), LAMBDA cand, base :
        (IF img # NoImg /\ ~_is_likely_thumbnail_url(img)
         THEN (IF base # <<>> /\ cand = base THEN 100
               ELSE IF base # <<>> /\ Find(cand, base, 1) # 0 THEN 50
               ELSE 5)
         ELSE 0)
        + 10 * Cardinality({i \in 1..Len(title_words) : title_words[i] \in words}))

\* url.startswith(f"{scheme}://{netloc}/product/")
StartsWithCanonical(url, base) ==
    /\ url.scheme = base.scheme
    /\ url.netloc = base.netloc
    /\ Len(url.path) >= 1
    /\ url.path[1] = "product"

\* the (score, href) of the <a href=".../product/..."> elements under the
\* canonical prefix, in document order
RECURSIVE AnchorCandidates(_, _, _, _)
AnchorCandidates(html, match_base, title_words, base) ==
    IF html = <<>> THEN <<>>
    ELSE LET a == Head(html)
         IN  (IF a.k = "a" /\ Len(a.href.path) >= 2 /\ StartsWithCanonical(a.href, base)
              THEN <<[score |-> _score_candidate_by_image_and_title(a.words, a.img, match_base, title_words),
                      url   |-> a.href]>>
              ELSE <<>>)
             \o AnchorCandidates(Tail(html), match_base, title_words, base)

\* the absolute chairish product urls anywhere in the page, score 1
RECURSIVE UrlCandidates(_, _)
UrlCandidates(html, base) ==
    IF html = <<>> THEN <<>>
    ELSE LET x == Head(html)
             u == IF x.k = "url" THEN x.url ELSE IF x.k = "a" THEN x.href ELSE NoneUrl
         IN  (IF /\ u # NoneUrl
                 /\ EndsWith(Lower(u.netloc), D_chairish)
                 /\ Len(u.path) >= 2
                 /\ StartsWithCanonical(u, base)
              THEN <<[score |-> 1, url |-> u]>>
              ELSE <<>>)
             \o UrlCandidates(Tail(html), base)

\* candidates.sort(reverse=True, key=score)[0]: the first of the best
BestCandidate(cs) ==
    cs[CHOOSE i \in 1..Len(cs) :
          /\ \A j \in 1..Len(cs) : cs[j].score <= cs[i].score
          /\ \A j \in 1..(i - 1) : cs[j].score < cs[i].score]

\* the product url, or NoneUrl
_find_chairish_product_link_by_image(html, match_thumbnail, match_title, base) ==
    On2(IF match_thumbnail # NoImg THEN _basename_from_url(match_thumbnail) ELSE <<>>,
        TitleWords(match_title), LAMBDA match_base, title_words :
    On1(AnchorCandidates(html, match_base, title_words, base), LAMBDA anchors :
    On1(IF anchors # <<>> THEN anchors ELSE UrlCandidates(html, base), LAMBDA cs :
        IF cs = <<>> THEN NoneUrl
        ELSE On1(BestCandidate(cs), LAMBDA best :
                 IF best.score >= 1 THEN best.url ELSE NoneUrl))))

\* ------------------------------------------------------------------------
\* The sites, pages and search results the model runs on
\* ------------------------------------------------------------------------
N_la == <<"w", "w", "w", ".", "l", "i", "v", "e", "a", "u", "c", "t", "i", "o", "n", "e", "e", "r", "s", ".", "c", "o", "m">>
N_chairish == <<"w", "w", "w", ".", "c", "h", "a", "i", "r", "i", "s", "h", ".", "c", "o", "m">>
N_sothebys == <<"W", "W", "W", ".", "S", "o", "t", "h", "e", "b", "y", "s", ".", "c", "o", "m">>
N_example == <<"w", "w", "w", ".", "e", "x", "a", "m", "p", "l", "e", ".", "c", "o", "m">>

Url(netloc, path) == [scheme |-> "https", netloc |-> netloc, path |-> path, query |-> <<>>]

U_la55 == Url(N_la, <<"item", "55">>)
U_la56 == Url(N_la, <<"item", "56">>)
U_soth == Url(N_sothebys, <<"lot", "9">>)
U_product == Url(N_chairish, <<"product", "abc123">>)
U_product2 == Url(N_chairish, <<"product", "xyz789">>)
U_collection == Url(N_chairish, <<"collection", "chairs">>)
U_example == Url(N_example, <<"x">>)

\* "Louis XVI Bergere"
W_louis == <<"L", "o", "u", "i", "s">>
W_xvi == <<"X", "V", "I">>
W_bergere == <<"B", "e", "r", "g", "e", "r", "e">>
Title1 == <<W_louis, W_xvi, W_bergere>>

Img1 == [dirs |-> <<"images">>, base |-> <<"c", "h", "a", "i", "r", "1", ".", "j", "p", "g">>,
         width |-> 0, height |-> 0]
ImgThumb == [dirs |-> <<"images", "thumbs">>, base |-> <<"c", "h", "a", "i", "r", "1", ".", "j", "p", "g">>,
             width |-> 265, height |-> 265]

T_est == <<"E", "s", "t", "i", "m", "a", "t", "e", ":", " ", "$", "8", "0", "0", " ", "-", " ", "$", "1", ",", "2", "0", "0">>
T_sold == <<"L", "o", "t", " ", "5", "5", " ", "S", "o", "l", "d">>
T_big == <<"E", "s", "t", "i", "m", "a", "t", "e", ":", " ", "$", "3", "0", "0", ",", "0", "0", "0", ",", "0", "0", "0", " ", "-", " ", "$", "4", "0", "0", ",", "0", "0", "0", ",", "0", "0", "0">>
T_reserve == <<"R", "e", "s", "e", "r", "v", "e", ":", " ", "$", "5", "0", "0">>
T_ld == <<"L", "o", "u", "i", "s", " ", "X", "V", "I", " ", "B", "e", "r", "g", "e", "r", "e", " ", "$", "2", ",", "4", "0", "0">>

Text(s) == [k |-> "text", s |-> s]

Tag == [k |-> "tag"]

\* "Estimate: $800 - $1,200", no structured data
P_est == <<Tag, Text(T_est), Tag>>

\* no estimate anywhere on the page
P_sold == <<Tag, Text(T_sold)>>

\* "Reserve: $500" and no estimate
P_reserve == <<Tag, Text(T_reserve)>>

\* "Estimate: $300,000,000 - $400,000,000"
P_big == <<Text(T_big)>>

\* a product page with a JSON-LD Offer, "price": "2400.00", "priceCurrency": "USD"
P_offer ==
    << [k |-> "script", id |-> "ld+json", ok |-> TRUE,
        pairs |-> << [key |-> "price", v |-> [t |-> "str", s |-> <<"2", "4", "0", "0", ".", "0", "0">>]],
                     [key |-> "priceCurrency", v |-> [t |-> "str", s |-> <<"U", "S", "D">>]] >>],
       Text(T_ld) >>

\* a collection page linking two products
P_collection ==
    << [k |-> "a", href |-> U_product2, img |-> ImgThumb, words |-> {}],
       [k |-> "a", href |-> U_product, img |-> Img1, words |-> {Lower(W_louis), Lower(W_bergere)}] >>

\* a collection page without product links
P_empty_collection == <<Tag, Text(T_ld)>>

\* a search result page that names a product url
P_search == <<[k |-> "url", url |-> U_product2]>>

Timeout == [exc |-> TRUE, status |-> NoStatus, body |-> <<>>]

Http(status, body) == [exc |-> FALSE, status |-> status, body |-> body]

\* what a GET of the url may answer
Responses(url) ==
    IF url = U_la55 THEN {Timeout, Http(200, P_est)}
    ELSE IF url = U_la56 THEN {Http(403, P_est), Http(200, P_reserve)}
    ELSE IF url = U_soth THEN {Http(200, <<>>), Http(200, P_big)}
    ELSE IF url = U_product \/ url = U_product2 THEN {Timeout, Http(200, P_offer)}
    ELSE IF url = U_collection THEN {Http(200, P_collection), Http(200, P_empty_collection)}
    ELSE IF url.path = <<"search">> THEN {Http(500, <<>>), Http(200, P_search)}
    ELSE {Timeout}

Val(s) == StrV(s)

GData(lo, hi, re) ==
    [isdict |-> TRUE, low_estimate |-> lo, high_estimate |-> hi, reserve |-> re,
     retail_price |-> NoneV]

Try(ok, data) == [ok |-> ok, data |-> data]

\* what the generative model may do when it is asked
GeminiOutcomes ==
    { [secret |-> FALSE, tries |-> <<>>],
      [secret |-> TRUE, tries |-> <<Try(FALSE, NoData), Try(FALSE, NoData), Try(FALSE, NoData)>>],
      [secret |-> TRUE, tries |-> <<Try(TRUE, NoData)>>],
      [secret |-> TRUE, tries |-> <<Try(TRUE, GData(NoneV, NoneV, NoneV))>>],
      [secret |-> TRUE,
       tries |-> <<Try(FALSE, NoData),
                   Try(TRUE, GData(Val(<<"$", "9", "0", "0">>), Val(<<"$", "1", ",", "5", "0", "0">>),
                                   Val(<<"$", "7", "0", "0">>)))>>] }

NoGemini == [secret |-> FALSE, tries |-> <<>>]

Pages == {P_est, P_sold, P_reserve, P_big, P_offer, P_collection, P_empty_collection, P_search}

\* Pages with embedded estimate fields, for the auction extractors on their
\* own.  A member value is a JSON number, a JSON string or an object whose
\* "amount" member comes first.
Member(key, t, s) == [key |-> key, v |-> [t |-> t, s |-> s]]

Script(id, ok, pairs) == [k |-> "script", id |-> id, ok |-> ok, pairs |-> pairs]

\* "lowEstimate": 500, "highEstimate": 900
F_camel == <<Member("lowEstimate", "num", <<"5", "0", "0">>),
             Member("highEstimate", "num", <<"9", "0", "0">>)>>

\* "estimate_low": "2,000", "estimate_high": "3,000"
F_snake == <<Member("estimate_low", "str", <<"2", ",", "0", "0", "0">>),
             Member("estimate_high", "str", <<"3", ",", "0", "0", "0">>)>>

\* "highEstimate": {"amount": 700}
F_high == <<Member("highEstimate", "obj", <<"7", "0", "0">>)>>

\* "lowEstimate": 900, "highEstimate": 500
F_inverted == <<Member("lowEstimate", "num", <<"9", "0", "0">>),
                Member("highEstimate", "num", <<"5", "0", "0">>)>>

EstimateFields == {<<>>, F_camel, F_snake, F_high, F_inverted}

\* the script that carries them: parsed page state, page state that is not
\* JSON, or another script
ScriptKinds == {[id |-> "__NEXT_DATA__", ok |-> TRUE], [id |-> "__NEXT_DATA__", ok |-> FALSE],
                [id |-> "ld+json", ok |-> TRUE]}

\* "Estimate: $1,200 - $800"
T_inverted == <<"E", "s", "t", "i", "m", "a", "t", "e", ":", " ", "$", "1", ",", "2", "0", "0", " ", "-", " ", "$", "8", "0", "0">>

EstimateTexts == {T_sold, T_est, T_reserve, T_inverted}

EstimatePage(sk, fields, text) == <<Script(sk.id, sk.ok, fields), Tag, Text(text)>>

EstimatePages ==
    {EstimatePage(sk, f, t) : sk \in ScriptKinds, f \in EstimateFields, t \in EstimateTexts}

Sites == {U_la55, U_la56, U_soth, U_product, U_product2, U_collection, U_example}

\* _hostname, the domain tests and the domain kind on the links of the
\* model, evaluated once
HostOfLinks == [u \in Sites \cup {EmptyUrl} |-> Hostname(u)]

Host(url) == HostOfLinks[url]

TargetOfLinks == [u \in Sites \cup {EmptyUrl} |-> IsTarget(Hostname(u))]

Target(url) == TargetOfLinks[url]

KindOfLinks == [u \in Sites \cup {EmptyUrl} |-> _kind_from_domain(u)]

KindOf(url) == KindOfLinks[url]

\* ------------------------------------------------------------------------
\* Listings (the dicts of raw_matches) and partial updates
\* ------------------------------------------------------------------------
\* the title None; a title is a sequence of words
NoneT == << <<NoneS>> >>

RawMatch(title, source, link, thumbnail) ==
    [keys |-> {"title", "source", "link", "thumbnail"},
     title |-> title, source |-> source, link |-> link, thumbnail |-> thumbnail,
     kind |-> NoneS, confidence |-> 0, http_status |-> NoStatus,
     product_url |-> NoneUrl, auction_low |-> NoneM, auction_high |-> NoneM,
     auction_reserve |-> NoneM, retail_price |-> NoneM]

\* update: Dict[str, Any] = {"_http_status": status}
StatusUpdate(status) ==
    [keys |-> {"_http_status"}, link |-> NoneUrl, http_status |-> status,
     product_url |-> NoneUrl, auction_low |-> NoneM, auction_high |-> NoneM,
     auction_reserve |-> NoneM, retail_price |-> NoneM]

\* a faulty variant of m.update(u): the listing becomes the update
DictReplaced(m, u) ==
    [keys |-> u.keys, title |-> NoneT, source |-> m.source, link |-> u.link,
     thumbnail |-> m.thumbnail, kind |-> m.kind, confidence |-> m.confidence,
     http_status |-> u.http_status, product_url |-> u.product_url,
     auction_low |-> u.auction_low, auction_high |-> u.auction_high,
     auction_reserve |-> u.auction_reserve, retail_price |-> u.retail_price]

\* m.update(u)
DictUpdate(m, u) ==
    [m EXCEPT !.keys            = @ \cup u.keys,
              !.link            = IF "link" \in u.keys THEN u.link ELSE @,
              !.http_status     = IF "_http_status" \in u.keys THEN u.http_status ELSE @,
              !.product_url     = IF "product_url" \in u.keys THEN u.product_url ELSE @,
              !.auction_low     = IF "auction_low" \in u.keys THEN u.auction_low ELSE @,
              !.auction_high    = IF "auction_high" \in u.keys THEN u.auction_high ELSE @,
              !.auction_reserve = IF "auction_reserve" \in u.keys THEN u.auction_reserve ELSE @,
              !.retail_price    = IF "retail_price" \in u.keys THEN u.retail_price ELSE @]

\* (m.get("link") or "").strip()
StripLink(link) == IF link = NoneUrl \/ link = BlankUrl THEN EmptyUrl ELSE link

\* (m.get("title") or "").strip()
StripTitle(title) == IF title = NoneT THEN <<>> ELSE title

\* a faulty variant of the run block: a confidence only for the supported
\* domains
ClassifySupported(m) ==
    LET kind == KindOf(StripLink(m.link))
    IN  [m EXCEPT !.keys = IF kind \in {"auction", "retail"} THEN @ \cup {"kind", "confidence"}
                           ELSE @ \cup {"kind"},
                  !.kind = kind,
                  !.confidence = IF kind \in {"auction", "retail"} THEN 75 ELSE 0]

\* the run block: m["kind"] = _kind_from_domain(m.get("link") or ""), and
\* confidence in hundredths
Classify(m) ==
    LET kind == KindOf(StripLink(m.link))
    IN  [m EXCEPT !.keys = @ \cup {"kind", "confidence"},
                  !.kind = kind,
                  !.confidence = IF kind \in {"auction", "retail"} THEN 75 ELSE 35]

\* the listing is skipped by the two "continue" tests at the top of the loop
Skipped(m) ==
    \/ StripLink(m.link) = EmptyUrl
    \/ ~Target(StripLink(m.link))

\* m.setdefault("kind", _kind_from_domain(original_url))
\* a faulty variant of line 650: m["kind"] = _kind_from_domain(host); a bare
\* host name has no netloc, so every listing becomes "other"
SetKindFromHost(m) == [m EXCEPT !.keys = @ \cup {"kind"}, !.kind = "other"]

SetDefaultKind(m) ==
    IF "kind" \in m.keys THEN m
    ELSE [m EXCEPT !.keys = @ \cup {"kind"}, !.kind = KindOf(StripLink(m.link))]

\* a faulty variant of the budget test: off by one
BudgetReachedLate(n, max) == n > max

\* if scraped >= max_to_scrape: break
BudgetReached(n, max) == n >= max

\* ------------------------------------------------------------------------
\* 7) HTTP fetch.  A response is [exc, status, body]: exc when session.get
\* raises (time-out, connection error), else the status code and the body.
\* ------------------------------------------------------------------------
HttpError == 400

\* a faulty variant of _fetch_html: the status code is not looked at
_fetch_html_any_status(r) ==
    IF r.exc THEN [html |-> <<>>, status |-> NoStatus]
    ELSE [html |-> r.body, status |-> r.status]

\* [html, status]; html is <<>> for None and for an empty body
_fetch_html(r) ==
    IF r.exc THEN [html |-> <<>>, status |-> NoStatus]
    ELSE IF r.status >= HttpError THEN [html |-> <<>>, status |-> r.status]
    ELSE [html |-> r.body, status |-> r.status]

\* ------------------------------------------------------------------------
\* 11) enrich_matches_with_prices: one listing that is fetched successfully
\* ------------------------------------------------------------------------
BaseOf(url) == [scheme |-> url.scheme, netloc |-> url.netloc]

\* f"{base_url}/search?query={quote_plus(match_title)}"
SearchUrl(url, title) ==
    [scheme |-> url.scheme, netloc |-> url.netloc, path |-> <<"search">>, query |-> title]

IsChairish(url) == EndsWith(Host(url), D_chairish)

\* the listing page did not yield a product link, so the search page is fetched
NeedsSearch(m, url, html) ==
    /\ IsChairish(url)
    /\ ~StartsWithCanonical(url, BaseOf(url))
    /\ _find_chairish_product_link_by_image(html, m.thumbnail, StripTitle(m.title), BaseOf(url)) = NoneUrl
    /\ StripTitle(m.title) # <<>>

\* lines 672-710: the update after the chairish canonical-link block; sr is
\* the response to the search request when NeedsSearch
ChairishUpdate(m, url, html, status, sr) ==
    On3(BaseOf(url), StripTitle(m.title), StatusUpdate(status), LAMBDA base, title, u0 :
        IF ~IsChairish(url) THEN u0
        ELSE IF StartsWithCanonical(url, base)
             THEN [u0 EXCEPT !.keys = @ \cup {"product_url"}, !.product_url = url]
        ELSE On1(_find_chairish_product_link_by_image(
                     IF NeedsSearch(m, url, html) /\ _fetch_html(sr).html # <<>>
                     THEN _fetch_html(sr).html ELSE html,
                     m.thumbnail, title, base), LAMBDA product_url :
                 IF product_url # NoneUrl /\ StartsWithCanonical(product_url, base)
                 THEN [u0 EXCEPT !.keys = @ \cup {"product_url", "link"},
                                 !.product_url = product_url, !.link = product_url]
                 ELSE u0))

\* _get_auction_estimates_by_host on the pages of the model, evaluated once
EstimatesOfPages ==
    [h \in {Host(u) : u \in Sites} \cup {D_bidsquare} |->
        [p \in Pages \cup EstimatePages |-> _get_auction_estimates_by_host(h, p)]]

Estimates(host, html) == EstimatesOfPages[host][html]

\* not update.get("auction_low") or not update.get("auction_high")
AuctionIncomplete(low, high) == low = NoneM \/ high = NoneM

\* st.session_state.get("use_gemini", True) and the deterministic pass left
\* the field(s) empty: the generative fallback is called for this listing.
\* The retail branch never gets there, see PriceUpdate.
GeminiReached(kind, host, html, use) ==
    /\ kind = "auction"
    /\ \E e \in {Estimates(host, html)} : AuctionIncomplete(e[1], e[2])
    /\ use

\* the deterministic pass left the required field(s) empty: retail_price
\* for retail (the retail extractors set nothing, see PriceUpdate), low or
\* high for auction
DeterministicEmpty(kind, host, html) ==
    IF kind = "retail" THEN TRUE
    ELSE IF kind = "auction"
         THEN \E e \in {Estimates(host, html)} : AuctionIncomplete(e[1], e[2])
    ELSE FALSE

\* lines 713-744: [update, exc, gcalls]; exc names the exception that the
\* try block raised ("" when none), gcalls the model calls made.
\* Retail: _extract_1stdibs_price, _extract_chairish_price and
\* _extract_retail_price_generic are called at lines 716-720 and defined
\* nowhere in the program, so the first statement of the branch raises
\* NameError and neither update["retail_price"] nor the fallback is reached.
PriceUpdate(u0, kind, host, html, use, g) ==
    IF kind = "retail" THEN [update |-> u0, exc |-> "NameError", gcalls |-> 0]
    ELSE IF kind = "auction" THEN
        On1(Estimates(host, html), LAMBDA e :
        On1([u0 EXCEPT !.keys = @ \cup {"auction_low", "auction_high", "auction_reserve"},
                       !.auction_low = e[1], !.auction_high = e[2],
                       !.auction_reserve = e[3]], LAMBDA u1 :
            IF ~(AuctionIncomplete(e[1], e[2]) /\ use)
            THEN [update |-> u1, exc |-> "", gcalls |-> 0]
            ELSE On1(_gemini_extract_auction_from_text(g), LAMBDA ai :
                     IF ai.raised THEN [update |-> u1, exc |-> "gemini", gcalls |-> ai.calls]
                     ELSE [update |-> [u1 EXCEPT !.auction_low = Or(e[1], ai.low),
                                                 !.auction_high = Or(e[2], ai.high),
                                                 !.auction_reserve = Or(e[3], ai.reserve)],
                           exc |-> "", gcalls |-> ai.calls])))
    ELSE [update |-> u0, exc |-> "", gcalls |-> 0]

\* a faulty variant of the except clause: nothing is caught
PropagatesAll(exc) == exc # ""

\* except Exception: pass -- no exception of the try block leaves the loop
Propagates(exc) == FALSE

\* ------------------------------------------------------------------------
\* 8) LiveAuctioneers login.  lo = [creds, page, post]: whether both secrets
\* are set, whether the login page is fetched, and what the POST does:
\* "exc" (raises), "rejected" (status >= 400), "loginpage" (the answer still
\* shows the sign-in form) or "ok".
\* ------------------------------------------------------------------------
\* a faulty variant without the try/except around the requests
_try_login_liveauctioneers_uncaught(lo, logged) ==
    IF ~lo.creds THEN [logged |-> logged, reqs |-> 0, raised |-> FALSE]
    ELSE IF logged THEN [logged |-> TRUE, reqs |-> 0, raised |-> FALSE]
    ELSE IF ~lo.page THEN [logged |-> FALSE, reqs |-> 1, raised |-> FALSE]
    ELSE [logged |-> lo.post = "ok", reqs |-> 2, raised |-> lo.post = "exc"]

\* [logged, reqs, raised]: la_logged_in afterwards, the HTTP requests sent
\* (the GET of the login page, the POST of the form), and whether an
\* exception leaves the function
_try_login_liveauctioneers(lo, logged) ==
    IF ~lo.creds THEN [logged |-> logged, reqs |-> 0, raised |-> FALSE]
    ELSE IF logged THEN [logged |-> TRUE, reqs |-> 0, raised |-> FALSE]
    ELSE IF ~lo.page THEN [logged |-> FALSE, reqs |-> 1, raised |-> FALSE]
    ELSE [logged |-> lo.post = "ok", reqs |-> 2, raised |-> FALSE]

LoginOutcomes ==
    {[creds |-> FALSE, page |-> FALSE, post |-> "exc"],
     [creds |-> TRUE, page |-> FALSE, post |-> "exc"],
     [creds |-> TRUE, page |-> TRUE, post |-> "exc"],
     [creds |-> TRUE, page |-> TRUE, post |-> "rejected"],
     [creds |-> TRUE, page |-> TRUE, post |-> "loginpage"],
     [creds |-> TRUE, page |-> TRUE, post |-> "ok"]}

\* what a call of enrich_matches_with_prices did about the login: whether
\* _try_login_liveauctioneers was called, la_logged_in at that moment, the
\* requests it sent
Login(called, logged0, reqs) == [called |-> called, logged0 |-> logged0, reqs |-> reqs]

NoLogin == Login(FALSE, FALSE, 0)

\* The search results an appraisal may start from: the visual matches of a
\* run are a selection, in this order, of the entries of Roster.
Roster ==
    << RawMatch(Title1, "LiveAuctioneers", U_la55, NoImg),
       RawMatch(Title1, "Pinterest", NoneUrl, NoImg),
       RawMatch(Title1, "Chairish", U_collection, Img1),
       RawMatch(NoneT, "LiveAuctioneers", U_la56, NoImg),
       RawMatch(Title1, "Example", U_example, Img1),
       RawMatch(Title1, "Sothebys", U_soth, Img1),
       RawMatch(Title1, "Chairish", U_product, Img1),
       RawMatch(Title1, "LiveAuctioneers", U_la55, NoImg),
       RawMatch(<<>>, "", BlankUrl, NoImg) >>

\* the entries of q at the indices in S, in order
RECURSIVE Select(_, _, _)
Select(q, S, i) ==
    IF i > Len(q) THEN <<>>
    ELSE (IF i \in S THEN <<q[i]>> ELSE <<>>) \o Select(q, S, i + 1)

\* ------------------------------------------------------------------------
\* Bounds
\* ------------------------------------------------------------------------
MaxMatches == 2

MaxBudget == 2

MaxCalls == 2

\* ------------------------------------------------------------------------
\* State
\* ------------------------------------------------------------------------
VARIABLES
    raw_matches,    \* the visual matches the search returns in this session,
                    \* as the run block classifies them
    matches,        \* the listings of the run, enriched in place
    scrape_cache,   \* st.session_state["scrape_cache"]: url -> update
    use_gemini,     \* st.session_state["use_gemini"]
    use_la_login,   \* st.session_state["use_la_login"]
    la_logged_in,   \* st.session_state["la_logged_in"]
    pc,             \* "idle", "loop" (inside enrich_matches_with_prices), "raised"
    mi,             \* index of the listing the for loop is at
    scraped,        \* the local counter of the loop
    max_to_scrape,  \* the argument of the call
    calls,          \* calls of enrich_matches_with_prices started so far
    events,         \* what the current (or last) call did, one record per listing
    matches0,       \* matches when the current (or last) call started
    cache0,         \* scrape_cache when the current (or last) call started
    login,          \* what the current (or last) call did about the login
    prev            \* per listing, what the call before did with it: "none"
                    \* (skipped or not reached), "kept" (processed, and the
                    \* listing has the link it had then) or "rewritten"
                    \* (processed, and the listing has another link now)

\* The helpers that enrichment and export rely on are also exercised on their
\* own, outside a run: arg is the argument(s) of the helper under study and
\* out its result.
VARIABLES
    arg,
    out

vars == <<raw_matches, matches, scrape_cache, use_gemini, use_la_login, la_logged_in, pc, mi,
          scraped, max_to_scrape, calls, events, matches0, cache0, login, prev, arg, out>>

run_vars == <<raw_matches, matches, scrape_cache, use_gemini, use_la_login, la_logged_in, pc, mi,
              scraped, max_to_scrape, calls, events, matches0, cache0, login, prev>>

NoArg == <<>>

NoOut == [fn |-> "none"]

EmptyCache == [u \in {} |-> StatusUpdate(NoStatus)]

Init ==
    /\ \E S \in SUBSET (1..Len(Roster)) :
          LET found == Select(Roster, S, 1)
          IN  /\ Cardinality(S) \in 1..MaxMatches
              /\ raw_matches = [i \in 1..Len(found) |-> Classify(found[i])]
    /\ matches = raw_matches
    /\ scrape_cache = EmptyCache
    /\ use_gemini \in BOOLEAN
    /\ use_la_login \in BOOLEAN
    /\ la_logged_in = FALSE
    /\ pc = "idle"
    /\ mi = 1
    /\ scraped = 0
    /\ max_to_scrape = 0
    /\ calls = 0
    /\ events = <<>>
    /\ matches0 = matches
    /\ cache0 = scrape_cache
    /\ login = NoLogin
    /\ prev = [i \in 1..Len(matches) |-> "none"]
    /\ arg = NoArg
    /\ out = NoOut

\* one record per listing the loop went through: how it was handled
\* ("skip", "hit", "fail", "scrape", "raised"), the cache key, the urls
\* requested, the exception of the try block, the calls of the generative
\* model, whether the fallback was invoked, whether the listing request
\* failed (exception or status >= 400), whether the deterministic pass
\* left the required field(s) empty, and the <<low, high, reserve>> that the
\* deterministic pass set
Event(how, key, fetched, exc, gcalls, reached, failed, empty, det) ==
    [i |-> mi, how |-> how, key |-> key, fetched |-> fetched, exc |-> exc,
     gcalls |-> gcalls, reached |-> reached, failed |-> failed, empty |-> empty,
     det |-> det]

NoEstimates == <<NoneM, NoneM, NoneM>>

\* the request got no answer, or an answer with an error status
RequestFailed(r) == r.exc \/ r.status >= HttpError

\* what a finished call did with each listing, from its events and the links
\* before (ms0) and after (ms)
Processed(evs, ms0, ms) ==
    [i \in 1..Len(ms) |->
        IF \E j \in 1..Len(evs) : evs[j].i = i /\ evs[j].how # "skip"
        THEN (IF ms[i].link = ms0[i].link THEN "kept" ELSE "rewritten")
        ELSE "none"]

\* a faulty variant of the cache write: the cache is replaced, not extended
CachePutAlone(cache, key, u) == [k \in {key} |-> u]

\* a faulty variant of the cache write: the update is not stored
CachePutLost(cache, key, u) == cache

CachePut(cache, key, u) ==
    [k \in DOMAIN cache \cup {key} |-> IF k = key THEN u ELSE cache[k]]

\* lines 1040-1060 and 627-636: the call starts, with the optional login.
\* It is made on listings freshly built from the search results (the run
\* block), or once more on the list the call before enriched.
StartEnrich ==
    /\ pc = "idle"
    /\ calls < MaxCalls
    /\ \E fresh \in BOOLEAN :
          /\ matches' = IF fresh THEN raw_matches ELSE matches
          /\ matches0' = matches'
          /\ prev' = Processed(events, matches0, matches')
    /\ \E n \in 0..MaxBudget, lo \in LoginOutcomes :
          \E r \in {IF use_la_login THEN _try_login_liveauctioneers(lo, la_logged_in)
                    ELSE [logged |-> la_logged_in, reqs |-> 0, raised |-> FALSE]} :
              /\ max_to_scrape' = n
              /\ la_logged_in' = r.logged
              /\ login' = IF use_la_login
                          THEN Login(TRUE, la_logged_in, r.reqs)
                          ELSE NoLogin
              /\ pc' = IF r.raised THEN "raised" ELSE "loop"
    /\ mi' = 1
    /\ scraped' = 0
    /\ calls' = calls + 1
    /\ events' = <<>>
    /\ cache0' = scrape_cache
    /\ UNCHANGED <<raw_matches, scrape_cache, use_gemini, use_la_login, arg, out>>

InLoop == pc = "loop" /\ mi <= Len(matches)

\* lines 638-639: the budget is used up
LoopBreak ==
    /\ InLoop
    /\ BudgetReached(scraped, max_to_scrape)
    /\ pc' = "idle"
    /\ UNCHANGED <<raw_matches, matches, scrape_cache, use_gemini, use_la_login, la_logged_in, mi,
                   scraped, max_to_scrape, calls, events, matches0, cache0, login, prev, arg, out>>

\* line 750: the list is exhausted
LoopEnd ==
    /\ pc = "loop"
    /\ mi > Len(matches)
    /\ pc' = "idle"
    /\ UNCHANGED <<raw_matches, matches, scrape_cache, use_gemini, use_la_login, la_logged_in, mi,
                   scraped, max_to_scrape, calls, events, matches0, cache0, login, prev, arg, out>>

\* lines 641-648: no link, or not a supported domain
SkipListing ==
    /\ InLoop
    /\ ~BudgetReached(scraped, max_to_scrape)
    /\ Skipped(matches[mi])
    /\ mi' = mi + 1
    /\ events' = Append(events, Event("skip", StripLink(matches[mi].link), <<>>, "", 0, FALSE, FALSE, FALSE, NoEstimates))
    /\ UNCHANGED <<raw_matches, matches, scrape_cache, use_gemini, use_la_login, la_logged_in, pc,
                   scraped, max_to_scrape, calls, matches0, cache0, login, prev, arg, out>>

Attempting ==
    /\ InLoop
    /\ ~BudgetReached(scraped, max_to_scrape)
    /\ ~Skipped(matches[mi])

\* lines 650-661: the url is cached
CacheHit ==
    /\ Attempting
    /\ \E key \in {StripLink(matches[mi].link)} :
          /\ key \in DOMAIN scrape_cache
          /\ matches' = [matches EXCEPT ![mi] = DictUpdate(SetDefaultKind(@), scrape_cache[key])]
          /\ events' = Append(events, Event("hit", key, <<>>, "", 0, FALSE, FALSE, FALSE, NoEstimates))
    /\ scraped' = scraped + 1
    /\ mi' = mi + 1
    /\ UNCHANGED <<raw_matches, scrape_cache, use_gemini, use_la_login, la_logged_in, pc,
                   max_to_scrape, calls, matches0, cache0, login, prev, arg, out>>

\* lines 663-670: the fetch fails
FetchFailed ==
    /\ Attempting
    /\ \E key \in {StripLink(matches[mi].link)} :
          /\ key \notin DOMAIN scrape_cache
          /\ \E r \in Responses(key) :
                \E f \in {_fetch_html(r)} :
                   /\ f.html = <<>>
                   /\ scrape_cache' = CachePut(scrape_cache, key, StatusUpdate(f.status))
                   /\ matches' = [matches EXCEPT ![mi] =
                                     DictUpdate(SetDefaultKind(@), StatusUpdate(f.status))]
                   /\ events' = Append(events, Event("fail", key, <<key>>, "", 0, FALSE,
                                                     RequestFailed(r), FALSE, NoEstimates))
    /\ scraped' = scraped + 1
    /\ mi' = mi + 1
    /\ UNCHANGED <<raw_matches, use_gemini, use_la_login, la_logged_in, pc, max_to_scrape, calls,
                   matches0, cache0, login, prev, arg, out>>

\* lines 663-748: the page is fetched and scraped
ScrapeListing ==
    /\ Attempting
    /\ \E key \in {StripLink(matches[mi].link)}, m \in {SetDefaultKind(matches[mi])} :
          /\ key \notin DOMAIN scrape_cache
          /\ \E r \in Responses(key) :
                \E f \in {_fetch_html(r)}, host \in {Host(key)} :
                   /\ f.html # <<>>
                   /\ \E search \in {NeedsSearch(m, key, f.html)},
                         surl \in {SearchUrl(key, StripTitle(m.title))},
                         asked \in {GeminiReached(m.kind, host, f.html, use_gemini)} :
                         \E sr \in (IF search THEN Responses(surl) ELSE {Timeout}),
                            g \in (IF asked THEN GeminiOutcomes ELSE {NoGemini}) :
                            \E p \in {PriceUpdate(ChairishUpdate(m, key, f.html, f.status, sr),
                                                  m.kind, host, f.html, use_gemini, g)} :
                               \E raised \in {Propagates(p.exc)} :
                                  /\ events' = Append(events,
                                        Event(IF raised THEN "raised" ELSE "scrape", key,
                                              IF search THEN <<key, surl>> ELSE <<key>>,
                                              p.exc, p.gcalls, asked, RequestFailed(r),
                                              DeterministicEmpty(m.kind, host, f.html),
                                              IF m.kind = "auction" THEN Estimates(host, f.html)
                                              ELSE NoEstimates))
                                  /\ IF raised
                                     THEN /\ matches' = [matches EXCEPT ![mi] = m]
                                          /\ pc' = "raised"
                                          /\ UNCHANGED <<scrape_cache, scraped, mi>>
                                     ELSE /\ scrape_cache' = CachePut(scrape_cache, key, p.update)
                                          /\ matches' = [matches EXCEPT ![mi] = DictUpdate(m, p.update)]
                                          /\ scraped' = scraped + 1
                                          /\ mi' = mi + 1
                                          /\ pc' = pc
    /\ UNCHANGED <<raw_matches, use_gemini, use_la_login, la_logged_in, max_to_scrape, calls,
                   matches0, cache0, login, prev, arg, out>>

Next ==
    \/ StartEnrich
    \/ LoopBreak
    \/ LoopEnd
    \/ SkipListing
    \/ CacheHit
    \/ FetchFailed
    \/ ScrapeListing

Spec == Init /\ [][Next]_vars

\* ------------------------------------------------------------------------
\* Properties of enrich_matches_with_prices
\* ------------------------------------------------------------------------
\* the last call of enrich_matches_with_prices has returned
Returned == pc = "idle" /\ calls > 0

\* a listing with a non-empty link on a supported auction or retail domain
InScope(m) == StripLink(m.link) # EmptyUrl /\ KindOf(StripLink(m.link)) # "other"

InScopeIdx(ms) == {i \in 1..Len(ms) : InScope(ms[i])}

\* the first n elements of the set S of indices
FirstN(S, n) == {i \in S : Cardinality({j \in S : j < i}) < n}

\* the listings the current call fetched or served from the cache
AttemptedIdx == {events[j].i : j \in {k \in 1..Len(events) : events[k].how # "skip"}}

\* the cache entries the current call created
NewKeys == DOMAIN scrape_cache \ DOMAIN cache0

PriceFields(m) == <<m.auction_low, m.auction_high, m.auction_reserve, m.retail_price>>

M_800 == <<"$", "8", "0", "0">>

M_1200 == <<"$", "1", ",", "2", "0", "0">>

M_2400 == <<"$", "2", ",", "4", "0", "0">>

\* C1: when a call with max_to_scrape = N has returned, the listings it
\* attempted (fetched or served from the cache) are exactly the first N
\* in-scope listings in list order; the other in-scope listings are as they
\* were before the call, and every cache entry the call created is the entry
\* of an attempted listing.
C1_BudgetExact ==
    Returned =>
        /\ AttemptedIdx = FirstN(InScopeIdx(matches0), max_to_scrape)
        /\ \A i \in InScopeIdx(matches0) \ AttemptedIdx : matches[i] = matches0[i]
        /\ \A k \in NewKeys :
              \E j \in 1..Len(events) : events[j].how # "skip" /\ events[j].key = k
        /\ \A j \in 1..Len(events) : events[j].fetched # <<>> => events[j].i \in AttemptedIdx

\* a call with budget N >= 1 over M > N in-scope listings has returned
C1_Witness ==
    /\ Returned
    /\ max_to_scrape >= 1
    /\ Cardinality(InScopeIdx(matches0)) > max_to_scrape
    /\ Cardinality(AttemptedIdx) = max_to_scrape
    /\ \E i \in InScopeIdx(matches0) : i \notin AttemptedIdx /\ matches[i] = matches0[i]

\* C2 as stated: in a second call, no HTTP request is issued for a listing
\* that the first call processed, Chairish listings whose link the first
\* call rewrote to the product URL included.
C2_OneFetchPerListing ==
    \A j \in 1..Len(events) :
        prev[events[j].i] # "none" => events[j].fetched = <<>>

\* C2 amended: in a second call, a listing that the first call processed and
\* that is looked up under the link it had then is served from the scrape
\* cache, and no HTTP request is issued for it.
C2_OneFetchPerUrl ==
    \A j \in 1..Len(events) :
        prev[events[j].i] = "kept" =>
            /\ events[j].how = "hit"
            /\ events[j].fetched = <<>>
            /\ events[j].key \in DOMAIN cache0

\* the second call served from the cache a listing the first call processed,
\* among them one the first call had to fetch
C2_Witness ==
    /\ calls = 2
    /\ Returned
    /\ \E j \in 1..Len(events) :
          /\ prev[events[j].i] = "kept"
          /\ events[j].how = "hit"
          /\ "_http_status" \in matches[events[j].i].keys

\* C3: an exception raised while extracting prices or calling the
\* generative fallback does not leave enrich_matches_with_prices; the
\* listing is cached and counted against the budget, and the loop moves on
\* to the next listing.
C3_ExceptionsContained ==
    /\ pc # "raised"
    /\ \A j \in 1..Len(events) :
          events[j].exc # "" =>
              /\ events[j].how = "scrape"
              /\ events[j].key \in DOMAIN scrape_cache
              /\ "_http_status" \in matches[events[j].i].keys
    /\ scraped = Cardinality(AttemptedIdx)
    /\ pc = "loop" => mi = Len(events) + 1
    /\ Returned => AttemptedIdx = FirstN(InScopeIdx(matches0), max_to_scrape)

\* a listing raised in the try block and a later listing was processed
C3_Witness ==
    /\ Returned
    /\ \E j, k \in 1..Len(events) :
          /\ j < k
          /\ events[j].exc # ""
          /\ events[k].how \in {"scrape", "hit", "fail"}
          /\ scraped >= 2

\* C4: a listing whose HTML fetch failed (exception, timeout or status >=
\* 400) has the title, link and thumbnail it had before the call, none of
\* its price fields is set, and the call does not raise.
C4_FetchFailureKeepsListing ==
    /\ pc # "raised"
    /\ \A j \in 1..Len(events) :
          events[j].failed =>
              /\ matches[events[j].i].title = matches0[events[j].i].title
              /\ matches[events[j].i].link = matches0[events[j].i].link
              /\ matches[events[j].i].thumbnail = matches0[events[j].i].thumbnail
              /\ PriceFields(matches[events[j].i]) = <<NoneM, NoneM, NoneM, NoneM>>

\* a call returned after a fetch that timed out and a fetch answered 403
C4_Witness ==
    /\ Returned
    /\ \E j, k \in 1..Len(events) :
          /\ events[j].failed /\ events[j].how = "fail"
          /\ events[k].failed /\ events[k].how = "fail"
          /\ matches[events[j].i].http_status = NoStatus
          /\ matches[events[k].i].http_status >= HttpError

\* None, or a canonical money string of a value in [$1, $200,000,000]
MoneyOk(x) == x = NoneM \/ _sanitize_money(StrV(x)) = x

\* C5: every money field stored on a listing or in the scrape cache is None
\* or a canonical money string of a value between $1 and $200,000,000.
C5_MoneyInBand ==
    /\ \A i \in 1..Len(matches) : \A f \in 1..4 : MoneyOk(PriceFields(matches[i])[f])
    /\ \A k \in DOMAIN scrape_cache : \A f \in 1..4 : MoneyOk(PriceFields(scrape_cache[k])[f])

\* C6: every auction listing that a call attempted has the keys
\* auction_low, auction_high and auction_reserve.
C6_AuctionKeysPresent ==
    \A i \in AttemptedIdx :
        matches[i].kind = "auction" =>
            {"auction_low", "auction_high", "auction_reserve"} \subseteq matches[i].keys

\* C7: a listing with an empty or missing link, or on no supported domain,
\* is never requested, cached, modified or counted against the budget.
C7_OutOfScopeUntouched ==
    /\ \A i \in 1..Len(matches) :
          ~InScope(matches0[i]) => matches[i] = matches0[i] /\ i \notin AttemptedIdx
    /\ \A j \in 1..Len(events) :
          ~InScope(matches0[events[j].i]) =>
              events[j].how = "skip" /\ events[j].fetched = <<>>
    /\ \A k \in NewKeys : \E i \in InScopeIdx(matches0) : StripLink(matches0[i].link) = k
    /\ scraped = Cardinality(AttemptedIdx)
    /\ scraped <= Cardinality(InScopeIdx(matches0))

\* an out-of-scope listing was passed over and a later listing was processed
\* within a budget of one
C7_Witness ==
    /\ Returned
    /\ max_to_scrape = 1
    /\ \E j, k \in 1..Len(events) :
          /\ j < k
          /\ events[j].how = "skip"
          /\ events[k].how # "skip"

\* C8: the chairish.com product listing whose page was fetched and carries
\* the JSON-LD Offer of 2400.00 USD has retail_price "$2,400".
C8_RetailPriceFromOffer ==
    \A j \in 1..Len(events) :
        (events[j].key = U_product /\ events[j].how \in {"scrape", "raised"}) =>
            matches[events[j].i].retail_price = M_2400

\* C9: the liveauctioneers.com listing whose page has no structured estimate
\* JSON and the text "Estimate: $800 - $1,200", without the word reserve,
\* has auction_low "$800", auction_high "$1,200" and auction_reserve None.
C9_TextEstimate ==
    \A j \in 1..Len(events) :
        (events[j].key = U_la55 /\ events[j].how = "scrape") =>
            /\ {"auction_low", "auction_high", "auction_reserve"} \subseteq matches[events[j].i].keys
            /\ matches[events[j].i].auction_low = M_800
            /\ matches[events[j].i].auction_high = M_1200
            /\ matches[events[j].i].auction_reserve = NoneM

\* that page was scraped
C9_Witness ==
    /\ _parse_next_data_json(P_est) = _parse_next_data_json(<<>>)
    /\ Find(_clean_html_text(P_est), W_estimate, 1) # 0
    /\ Find(_clean_html_text(P_est), W_reserve, 1) = 0
    /\ \E j \in 1..Len(events) : events[j].key = U_la55 /\ events[j].how = "scrape"

\* C10: the generative model is called for a listing only if use_gemini is
\* on and the deterministic pass left the required field(s) empty; and it is
\* invoked for every successfully fetched listing for which both hold.
C10_FallbackExactlyWhenNeeded ==
    \A j \in 1..Len(events) :
        /\ (events[j].reached \/ events[j].gcalls > 0) => (use_gemini /\ events[j].empty)
        /\ (events[j].how \in {"scrape", "raised"} /\ use_gemini /\ events[j].empty)
              => events[j].reached

M_500 == <<"$", "5", "0", "0">>

\* C11: when the generative fallback ran for a listing, whether it answered
\* or failed, every auction field the deterministic pass had set has the
\* deterministic value on the listing and in the scrape cache; the retail
\* price is never set by the deterministic pass and never by the fallback.
C11_DeterministicWins ==
    \A j \in 1..Len(events) :
        (events[j].how = "scrape" /\ events[j].reached) =>
            \A f \in 1..3 :
                events[j].det[f] # NoneM =>
                    /\ PriceFields(matches[events[j].i])[f] = events[j].det[f]
                    /\ PriceFields(scrape_cache[events[j].key])[f] = events[j].det[f]

\* the page with "Reserve: $500" and no estimate was scraped, the model
\* answered with a low, a high and another reserve, and the listing has the
\* low and high of the model and the reserve of the page
C11_Witness ==
    \E j \in 1..Len(events) :
        /\ events[j].how = "scrape"
        /\ events[j].reached
        /\ events[j].exc = ""
        /\ events[j].gcalls = 2
        /\ events[j].det = <<NoneM, NoneM, M_500>>
        /\ matches[events[j].i].auction_reserve = M_500
        /\ matches[events[j].i].auction_low # NoneM

\* the record of the listing that the step just taken handled
Latest == events'[Len(events')]

\* C12: no step of any call overwrites or removes a scrape-cache entry; a
\* listing whose link is cached, a failed fetch included, is not requested
\* and receives exactly the cached update.
C12_CacheEntriesStable ==
    [][/\ \A k \in DOMAIN scrape_cache :
             k \in DOMAIN scrape_cache' /\ scrape_cache'[k] = scrape_cache[k]
       /\ (Len(events') = Len(events) + 1 /\ Latest.how # "skip"
             /\ Latest.key \in DOMAIN scrape_cache) =>
             /\ Latest.how = "hit"
             /\ Latest.fetched = <<>>
             /\ matches'[mi] = DictUpdate(SetDefaultKind(matches[mi]), scrape_cache[Latest.key])
       /\ \A j \in 1..Len(events) :
             events[j].how = "fail" =>
                 /\ events[j].key \in DOMAIN scrape_cache
                 /\ scrape_cache[events[j].key].keys = {"_http_status"}]_vars

\* a second call served a listing from the entry that a failed fetch of the
\* first call left in the cache
C12_Witness ==
    /\ calls = 2
    /\ \E j \in 1..Len(events) :
          /\ events[j].how = "hit"
          /\ events[j].key \in DOMAIN cache0
          /\ scrape_cache[events[j].key] = StatusUpdate(NoStatus)
          /\ matches[events[j].i].keys \cap {"auction_low", "retail_price"} = {}

IdentityKept(m0, m) ==
    /\ m.title = m0.title
    /\ m.source = m0.source
    /\ m.thumbnail = m0.thumbnail
    /\ m0.keys \subseteq m.keys

\* C13 as stated: title, source, thumbnail and link of every listing are
\* the same after the call as before it, and the list has the same length.
C13_IdentityFieldsKept ==
    /\ Len(matches) = Len(matches0)
    /\ \A i \in 1..Len(matches) :
          IdentityKept(matches0[i], matches[i]) /\ matches[i].link = matches0[i].link

\* the link of a Chairish listing that is not a product link was replaced by
\* the product link resolved for it
LinkResolved(m0, m) ==
    /\ IsChairish(StripLink(m0.link))
    /\ ~StartsWithCanonical(StripLink(m0.link), BaseOf(StripLink(m0.link)))
    /\ StartsWithCanonical(m.link, BaseOf(StripLink(m0.link)))
    /\ "product_url" \in m.keys
    /\ m.product_url = m.link

\* C13 amended: title, source and thumbnail of every listing are the same
\* after the call as before it, no key is removed, the list has the same
\* length and order, and the link is the same unless the listing is a
\* Chairish listing whose link is not a product link, in which case it may
\* be replaced by the product link resolved for it.
C13_IdentityKeptButChairishLink ==
    /\ Len(matches) = Len(matches0)
    /\ \A i \in 1..Len(matches) :
          /\ IdentityKept(matches0[i], matches[i])
          /\ matches[i].link = matches0[i].link \/ LinkResolved(matches0[i], matches[i])

\* a call returned after it enriched a listing in place and replaced the
\* link of a Chairish listing
C13_Witness ==
    /\ Returned
    /\ \E i \in AttemptedIdx :
          /\ matches[i].link # matches0[i].link
          /\ IdentityKept(matches0[i], matches[i])
    /\ \E i \in AttemptedIdx :
          /\ matches[i].link = matches0[i].link
          /\ matches[i].keys # matches0[i].keys

\* C14: a listing that enters the call with a kind has the same kind at
\* every point of the call and after it; the kind of a listing differs from
\* the one it entered with only if it entered with none.
C14_KindKept ==
    \A i \in 1..Len(matches) :
        /\ "kind" \in matches0[i].keys =>
              "kind" \in matches[i].keys /\ matches[i].kind = matches0[i].kind
        /\ matches[i].kind # matches0[i].kind => "kind" \notin matches0[i].keys

\* a call returned after a cache hit, a failed fetch and an extraction with
\* the generative fallback on classified listings
C14_Witness ==
    /\ Returned
    /\ \A i \in 1..Len(matches0) : "kind" \in matches0[i].keys
    /\ \E j \in 1..Len(events) :
          events[j].how = "scrape" /\ events[j].reached /\ matches[events[j].i].kind = "auction"
    /\ \E j \in 1..Len(events) :
          events[j].how \in {"hit", "fail"} /\ matches[events[j].i].kind \in {"auction", "retail"}

\* the generative model was asked and every attempt raised
AllAttemptsRaised(ev) == ev.reached /\ ev.exc = "gemini" /\ ev.gcalls = GEMINI_RETRIES

\* C15: whatever the generative model does, all its attempts raising
\* included, the call does not raise and every listing of the results has a
\* kind in {auction, retail, other} and a confidence in [0, 1] (hundredths:
\* 0..100).
C15_KindAndConfidence ==
    /\ pc # "raised"
    /\ \A i \in 1..Len(matches) :
          /\ {"kind", "confidence"} \subseteq matches[i].keys
          /\ matches[i].kind \in {"auction", "retail", "other"}
          /\ matches[i].confidence \in 0..100
    /\ \A j \in 1..Len(events) :
          AllAttemptsRaised(events[j]) => events[j].how = "scrape"

\* a run over a listing of an unsupported domain and an auction listing for
\* which every attempt of the generative model raised has completed
C15_Witness ==
    /\ Returned
    /\ \E j \in 1..Len(events) : AllAttemptsRaised(events[j])
    /\ \A j \in 1..Len(events) : events[j].reached => AllAttemptsRaised(events[j])
    /\ \E i \in 1..Len(matches) : matches[i].kind = "other"

\* ------------------------------------------------------------------------
\* The money helpers on their own
\* ------------------------------------------------------------------------
\* the run is not started
RunIdle ==
    /\ raw_matches = <<>>
    /\ matches = <<>>
    /\ scrape_cache = EmptyCache
    /\ use_gemini = TRUE
    /\ use_la_login = FALSE
    /\ la_logged_in = FALSE
    /\ login = NoLogin
    /\ pc = "idle"
    /\ mi = 1
    /\ scraped = 0
    /\ max_to_scrape = 0
    /\ calls = 0
    /\ events = <<>>
    /\ matches0 = <<>>
    /\ cache0 = EmptyCache
    /\ prev = <<>>

\* whole-dollar amounts that money texts are written for
UnitSamples == <<1250, 800, 0, 200000000, 45, 999, 200000001, 1000, 1234567>>

\* how many of them are used
MaxUnitSamples == 6

Prefixes == {<<>>, <<"$">>, <<"U", "S", "D", " ">>, <<"U", "S", "$">>, <<"$", " ">>}

\* the fraction of a money text and its value in hundredths
Fractions ==
    { [c |-> 0, s |-> <<>>], [c |-> 0, s |-> <<".", "0", "0">>],
      [c |-> 50, s |-> <<".", "5">>], [c |-> 50, s |-> <<".", "5", "0">>],
      [c |-> 1, s |-> <<".", "0", "1">>] }

\* a text of the accepted money grammar: optional prefix, digits with or
\* without thousands separators, optional fraction of one or two digits;
\* d is the amount that the text denotes
MoneyText(p, u, sep, f) ==
    [v |-> StrV(p \o (IF sep THEN Grouped(u) ELSE NatChars(u)) \o f.s),
     d |-> Dec(u, f.c), grammar |-> TRUE]

GrammarInputs ==
    {MoneyText(p, UnitSamples[k], sep, f) :
        p \in Prefixes, k \in 1..MaxUnitSamples, sep \in BOOLEAN, f \in Fractions}

\* a value that is no text of the grammar
Other(v) == [v |-> v, d |-> NoneD, grammar |-> FALSE]

OtherInputs ==
    { Other(NoneV), Other(StrV(<<>>)), Other(StrV(<<"a", "b", "c">>)),
      Other(StrV(<<"<", "b", ">", "$", "5", "<", "/", "b", ">">>)),
      Other(NumV(Dec(1250, 50))), Other(NumV(Dec(0, 99))), Other(NumV(Dec(0, 0))),
      Other(NumV(Dec(MaxMoney, 1))), Other(NumV(Dec(MaxMoney, 0))) }

MoneyInputs == GrammarInputs \cup OtherInputs

\* the second bound of a range
HighInputs ==
    { MoneyText(<<"$">>, 800, FALSE, [c |-> 0, s |-> <<>>]),
      MoneyText(<<"$">>, 1250, TRUE, [c |-> 50, s |-> <<".", "5", "0">>]),
      Other(StrV(<<"a", "b", "c">>)), Other(NoneV), Other(NumV(Dec(0, 50))) }

MoneyInit ==
    /\ RunIdle
    /\ arg \in {[lo |-> a, hi |-> b] : a \in MoneyInputs, b \in HighInputs}
    /\ out = NoOut

\* _sanitize_money(v)
CallSanitizeMoney ==
    /\ out = NoOut
    /\ out' = [fn |-> "_sanitize_money", r |-> _sanitize_money(arg.lo.v)]
    /\ UNCHANGED <<run_vars, arg>>

\* _sanitize_range(lo, hi)
CallSanitizeRange ==
    /\ out = NoOut
    /\ out' = [fn |-> "_sanitize_range", r |-> _sanitize_range(arg.lo.v, arg.hi.v)]
    /\ UNCHANGED <<run_vars, arg>>

\* _format_money(_to_decimal_money(v)) and the decimal that the result is
\* parsed to
CallFormatMoney ==
    /\ out = NoOut
    /\ _to_decimal_money(arg.lo.v) # NoneD
    /\ \E d \in {_to_decimal_money(arg.lo.v)} :
          \E t \in {_format_money(d)} :
             out' = [fn |-> "_format_money", d |-> d, r |-> t,
                     back |-> _to_decimal_money(StrV(t))]
    /\ UNCHANGED <<run_vars, arg>>

MoneyNext ==
    \/ CallSanitizeMoney
    \/ CallSanitizeRange
    \/ CallFormatMoney

SpecMoney == MoneyInit /\ [][MoneyNext]_vars

M_1250 == <<"$", "1", ",", "2", "5", "0">>

\* a parsed bound of at least one dollar
ValidBound(d) == d # NoneD /\ ~DecLess(d, Dec(MinMoney, 0))

\* C16: _sanitize_range(lo, hi) is (None, None) when either bound fails to
\* parse; when both bounds are valid and lo > hi it is the pair of the
\* formatted smaller and the formatted larger value, in this order.
C16_RangeOrdered ==
    out.fn = "_sanitize_range" =>
        \E dlo \in {_to_decimal_money(arg.lo.v)}, dhi \in {_to_decimal_money(arg.hi.v)} :
            /\ (dlo = NoneD \/ dhi = NoneD) => out.r = <<NoneM, NoneM>>
            /\ (ValidBound(dlo) /\ ValidBound(dhi) /\ DecLess(dhi, dlo)) =>
                  /\ out.r = <<_format_money(dhi), _format_money(dlo)>>
                  /\ out.r[1] # NoneM /\ out.r[2] # NoneM
                  /\ ~DecLess(_to_decimal_money(StrV(out.r[2])), _to_decimal_money(StrV(out.r[1])))

\* _sanitize_range("$1,250", "$800") returned ("$800", "$1,250")
C16_Witness ==
    /\ out.fn = "_sanitize_range"
    /\ arg.lo.v = StrV(M_1250)
    /\ arg.hi.v = StrV(M_800)
    /\ out.r = <<M_800, M_1250>>

\* the decimal is below one dollar, or above MaxMoney dollars
OutOfBand(d) == d.u < MinMoney \/ d.u > MaxMoney \/ (d.u = MaxMoney /\ d.c > 0)

\* C17: _sanitize_money(v) is None when the decimal parsed from v is below 1
\* or above 200,000,000, and the formatted decimal when it lies in the band.
C17_MoneyBand ==
    out.fn = "_sanitize_money" =>
        \E d \in {_to_decimal_money(arg.lo.v)} :
            /\ (d = NoneD \/ OutOfBand(d)) => out.r = NoneM
            /\ (d # NoneD /\ ~OutOfBand(d)) => out.r = _format_money(d) /\ out.r # NoneM

\* _sanitize_money("$200,000,000.01") returned None
C17_Witness ==
    /\ out.fn = "_sanitize_money"
    /\ arg.lo.grammar
    /\ _to_decimal_money(arg.lo.v) = Dec(MaxMoney, 1)
    /\ out.r = NoneM

\* C18: for a text of the money grammar, formatting the parsed value gives
\* the canonical text of the amount that the text denotes (no decimals for
\* whole dollars, two decimals otherwise, thousands separators), and
\* parsing that canonical text gives the same decimal again.
C18_FormatParseRoundTrip ==
    (out.fn = "_format_money" /\ arg.lo.grammar) =>
        /\ out.r = _format_money(arg.lo.d)
        /\ out.back = out.d

\* ------------------------------------------------------------------------
\* The domain classifier on its own: from the text of a link to its kind
\* ------------------------------------------------------------------------
IsLetter(ch) == \E i \in 1..26 : LowerAlpha[i] = ch \/ UpperAlpha[i] = ch

IsSchemeChar(ch) == IsLetter(ch) \/ IsDigit(ch) \/ ch \in {"+", "-", "."}

\* str.find(ch) from position i on, 0 when absent
RECURSIVE IndexOf(_, _, _)
IndexOf(s, ch, i) ==
    IF i > Len(s) THEN 0
    ELSE IF s[i] = ch THEN i
    ELSE IndexOf(s, ch, i + 1)

\* urlsplit: the text after "scheme:", when the text starts with a scheme
AfterScheme(s) ==
    On1(IndexOf(s, ":", 1), LAMBDA i :
        IF i > 1 /\ IsLetter(s[1]) /\ \A k \in 1..(i - 1) : IsSchemeChar(s[k])
        THEN SubSeq(s, i + 1, Len(s))
        ELSE s)

\* _splitnetloc: the first of "/", "?", "#" from position i on, else the end
RECURSIVE NetlocEnd(_, _)
NetlocEnd(s, i) ==
    IF i > Len(s) THEN Len(s) + 1
    ELSE IF s[i] \in {"/", "?", "#"} THEN i
    ELSE NetlocEnd(s, i + 1)

\* urlparse(url): [raised, url]; ValueError for an unbalanced bracket in the
\* netloc
urlparse(s) ==
    On1(AfterScheme(s), LAMBDA rest :
        IF ~StartsWith(rest, <<"/", "/">>)
        THEN [raised |-> FALSE, url |-> EmptyUrl]
        ELSE On1(SubSeq(rest, 3, NetlocEnd(rest, 3) - 1), LAMBDA netloc :
                 [raised |-> (IndexOf(netloc, "[", 1) # 0) # (IndexOf(netloc, "]", 1) # 0),
                  url |-> [scheme |-> "", netloc |-> netloc, path |-> <<>>, query |-> <<>>]]))

\* _hostname(url), with its except clause: "" when urlparse raises
_hostname(s) ==
    On1(urlparse(s), LAMBDA p : IF p.raised THEN <<>> ELSE Hostname(p.url))

\* the link as _kind_from_domain sees it after _hostname
Parsed(s) ==
    On1(urlparse(s), LAMBDA p : IF p.raised THEN EmptyUrl ELSE p.url)

Schemes ==
    { <<>>, <<"h", "t", "t", "p", "s", ":", "/", "/">>, <<"H", "T", "T", "P", ":", "/", "/">>,
      <<"/", "/">>, <<"h", "t", "t", "p", "s", ":">> }

HostPrefixes == {<<>>, Www, <<"W", "w", "W", ".">>, <<"n", "o", "t">>, <<"[">>}

SiteNames ==
    AUCTION_DOMAINS \cup RETAIL_DOMAINS
        \cup { <<"e", "x", "a", "m", "p", "l", "e", ".", "c", "o", "m">>,
               <<"S", "O", "T", "H", "E", "B", "Y", "S", ".", "C", "O", "M">>,
               <<"c", "h", "a", "i", "r", "i", "s", "h">>, <<>> }

\* what may follow the site name in a link
UrlTails ==
    << <<>>, <<"/", "i", "t", "e", "m", "/", "5", "5">>, <<".", "e", "v", "i", "l", ".", "o", "r", "g">>,
       <<":", "4", "4", "3", "/">>, <<"?", "q", "=", "1">>, <<"#", "t", "o", "p">>, <<" ", "x">> >>

\* how many of them are used
MaxUrlTails == 5

LinkTexts ==
    {sc \o pre \o site \o UrlTails[k] :
        sc \in Schemes, pre \in HostPrefixes, site \in SiteNames, k \in 1..MaxUrlTails}

DomainInit ==
    /\ RunIdle
    /\ arg \in {[url |-> t] : t \in LinkTexts}
    /\ out = NoOut

\* _hostname(url)
CallHostname ==
    /\ out = NoOut
    /\ out' = [fn |-> "_hostname", raised |-> FALSE, r |-> _hostname(arg.url)]
    /\ UNCHANGED <<run_vars, arg>>

\* _kind_from_domain(url)
CallKindFromDomain ==
    /\ out = NoOut
    /\ out' = [fn |-> "_kind_from_domain", raised |-> FALSE,
               r |-> _kind_from_domain(Parsed(arg.url))]
    /\ UNCHANGED <<run_vars, arg>>

DomainNext ==
    \/ CallHostname
    \/ CallKindFromDomain

SpecDomain == DomainInit /\ [][DomainNext]_vars

MatchesSet(host, domains) == \E d \in domains : EndsWith(host, d)

\* C19: _kind_from_domain returns, without raising, one of auction, retail
\* and other for every text: auction iff the host (lower case, without a
\* leading "www.") ends with a domain of the auction set, retail iff it ends
\* with a domain of the retail set, other iff neither; no host ends with a
\* domain of both sets.
C19_KindTotal ==
    out.fn = "_kind_from_domain" =>
        \E host \in {_hostname(arg.url)} :
            /\ ~out.raised
            /\ out.r \in {"auction", "retail", "other"}
            /\ out.r = "auction" <=> MatchesSet(host, AUCTION_DOMAINS)
            /\ out.r = "retail" <=> MatchesSet(host, RETAIL_DOMAINS)
            /\ out.r = "other" <=>
                  (~MatchesSet(host, AUCTION_DOMAINS) /\ ~MatchesSet(host, RETAIL_DOMAINS))
            /\ ~(MatchesSet(host, AUCTION_DOMAINS) /\ MatchesSet(host, RETAIL_DOMAINS))

\* the kind of "HTTP://WwW.sothebys.com.evil.org" is other
C19_Witness ==
    /\ out.fn = "_kind_from_domain"
    /\ out.r = "other"
    /\ _hostname(arg.url) = D_sothebys \o UrlTails[3]
    /\ StartsWith(arg.url, <<"H", "T", "T", "P">>)

\* ------------------------------------------------------------------------
\* 12) export_to_google_sheets: the rows
\* ------------------------------------------------------------------------
\* a cell of a row: what it holds and the value
Cell(k, v) == [k |-> k, v |-> v]

\* "" in a slot without a listing
Pad == Cell("pad", "")

\* range(3), and [:3]
ExportSlots == 3

\* [m for m in matches if m.get("kind") == kind][:3]
KindItems(ms, kind) ==
    On1(SelectSeq(ms, LAMBDA m : "kind" \in m.keys /\ m.kind = kind), LAMBDA all :
        SubSeq(all, 1, IF Len(all) < ExportSlots THEN Len(all) ELSE ExportSlots))

\* the cells of slot i of build_row
RowSlot(items, is_auc, i) ==
    IF i <= Len(items)
    THEN <<Cell("title", items[i].title), Cell("link", items[i].link)>>
         \o (IF is_auc
             THEN <<Cell("auction_low", items[i].auction_low),
                    Cell("auction_high", items[i].auction_high),
                    Cell("auction_reserve", items[i].auction_reserve)>>
             ELSE <<Cell("retail_price", items[i].retail_price)>>)
    ELSE [j \in 1..(IF is_auc THEN 5 ELSE 3) |-> Pad]

\* the cells of the slots i..3
RECURSIVE RowSlots(_, _, _)
RowSlots(items, is_auc, i) ==
    IF i > ExportSlots THEN <<>>
    ELSE RowSlot(items, is_auc, i) \o RowSlots(items, is_auc, i + 1)

\* a faulty variant of build_row: every missing slot is padded with 3 cells
build_row_pad3(items, is_auc, ts, img_url) ==
    <<Cell("ts", ts), Cell("formula", img_url), Cell("img_url", img_url)>>
        \o [j \in 1..(Len(items) * (IF is_auc THEN 5 ELSE 3)) |->
               RowSlots(items, is_auc, 1)[j]]
        \o [j \in 1..((ExportSlots - Len(items)) * 3) |-> Pad]

build_row(items, is_auc, ts, img_url) ==
    <<Cell("ts", ts), Cell("formula", img_url), Cell("img_url", img_url)>>
        \o RowSlots(items, is_auc, 1)

\* a listing of the results, as enrichment leaves it
Enriched(n, kind, low, high, reserve, price) ==
    [Classify(Roster[n]) EXCEPT
        !.kind = kind,
        !.keys = @ \cup (IF low # NoneM THEN {"auction_low", "auction_high", "auction_reserve"}
                         ELSE {})
                   \cup (IF price # NoneM THEN {"retail_price"} ELSE {}),
        !.auction_low = low, !.auction_high = high, !.auction_reserve = reserve,
        !.retail_price = price]

ExportListings ==
    { Enriched(1, "auction", M_800, M_1200, NoneM, NoneM),
      Enriched(4, "auction", NoneM, NoneM, NoneM, NoneM),
      Enriched(6, "auction", M_500, M_1250, M_500, NoneM),
      Enriched(7, "retail", NoneM, NoneM, NoneM, M_2400),
      Enriched(3, "retail", NoneM, NoneM, NoneM, NoneM),
      Enriched(5, "other", NoneM, NoneM, NoneM, NoneM) }

\* the longest list of results that is exported
MaxExportMatches == 4

RECURSIVE ListsUpTo(_, _)
ListsUpTo(S, n) ==
    IF n = 0 THEN {<<>>}
    ELSE ListsUpTo(S, n - 1)
         \cup {Append(q, x) : q \in {r \in ListsUpTo(S, n - 1) : Len(r) = n - 1}, x \in S}

ExportInit ==
    /\ RunIdle
    /\ arg \in {[matches |-> ms, ts |-> "2026-01-01", img_url |-> "https://s3/img"] :
                   ms \in ListsUpTo(ExportListings, MaxExportMatches)}
    /\ out = NoOut

\* build_row(auctions, True)
BuildAuctionRow ==
    /\ out = NoOut
    /\ out' = [fn |-> "build_row", is_auc |-> TRUE, kind |-> "auction",
               r |-> build_row(KindItems(arg.matches, "auction"), TRUE, arg.ts, arg.img_url)]
    /\ UNCHANGED <<run_vars, arg>>

\* build_row(retails, False)
BuildRetailRow ==
    /\ out = NoOut
    /\ out' = [fn |-> "build_row", is_auc |-> FALSE, kind |-> "retail",
               r |-> build_row(KindItems(arg.matches, "retail"), FALSE, arg.ts, arg.img_url)]
    /\ UNCHANGED <<run_vars, arg>>

ExportNext ==
    \/ BuildAuctionRow
    \/ BuildRetailRow

SpecExport == ExportInit /\ [][ExportNext]_vars

\* the positions in ms of the listings of a kind
KindIdx(ms, kind) == {i \in 1..Len(ms) : ms[i].kind = kind}

\* the n-th smallest element of the set S of indices
Nth(S, n) == CHOOSE i \in S : Cardinality({j \in S : j < i}) = n - 1

\* the cells that a row holds for slot n, in a row with w cells per slot
SlotCells(row, w, n) == SubSeq(row, 3 + (n - 1) * w + 1, 3 + n * w)

\* C20: the Auction row has 18 cells and the Retail row 12: timestamp,
\* image formula and image url, then three slots of title, link and the
\* price field(s) of the kind; slot n holds the n-th listing of the kind in
\* the original order, and a slot without a listing holds empty strings.
C20_FixedWidthRows ==
    out.fn = "build_row" =>
        \E w \in {IF out.is_auc THEN 5 ELSE 3}, I \in {KindIdx(arg.matches, out.kind)} :
            /\ Len(out.r) = 3 + 3 * w
            /\ out.is_auc => Len(out.r) = 18
            /\ <<out.r[1].k, out.r[2].k, out.r[3].k>> = <<"ts", "formula", "img_url">>
            /\ \A n \in 1..3 :
                  IF n <= Cardinality(I)
                  THEN \E m \in {arg.matches[Nth(I, n)]} :
                          /\ SlotCells(out.r, w, n)[1] = Cell("title", m.title)
                          /\ SlotCells(out.r, w, n)[2] = Cell("link", m.link)
                          /\ IF out.is_auc
                             THEN /\ SlotCells(out.r, w, n)[3] = Cell("auction_low", m.auction_low)
                                  /\ SlotCells(out.r, w, n)[4] = Cell("auction_high", m.auction_high)
                                  /\ SlotCells(out.r, w, n)[5] = Cell("auction_reserve", m.auction_reserve)
                             ELSE SlotCells(out.r, w, n)[3] = Cell("retail_price", m.retail_price)
                  ELSE \A c \in 1..w : SlotCells(out.r, w, n)[c] = Pad

\* the Auction row of results with one auction listing, which is not the
\* first of the results
C20_Witness ==
    /\ out.fn = "build_row"
    /\ out.is_auc
    /\ Cardinality(KindIdx(arg.matches, "auction")) = 1
    /\ Len(arg.matches) = 3
    /\ arg.matches[1].kind = "other"
    /\ Len(out.r) = 18
    /\ out.r[9] = Pad

\* ------------------------------------------------------------------------
\* The optional login
\* ------------------------------------------------------------------------
\* the listings a call with budget n attempts from index i on, as the loop
\* of enrich_matches_with_prices picks them: login plays no part in it
RECURSIVE Scrapable(_, _, _)
Scrapable(ms, i, n) ==
    IF i > Len(ms) \/ n <= 0 THEN {}
    ELSE IF Skipped(ms[i]) THEN Scrapable(ms, i + 1, n)
    ELSE {i} \cup Scrapable(ms, i + 1, n - 1)

AttemptedListings == {events[j].i : j \in {k \in 1..Len(events) : events[k].how # "skip"}}

\* C21: the login is best-effort.  Whatever it does, the call enters its
\* loop and, once finished, has attempted exactly the listings that the
\* budget and the supported domains select; _try_login_liveauctioneers is
\* called exactly when use_la_login is on, and it sends no request when the
\* session is already marked logged in.
C21_LoginBestEffort ==
    /\ pc \in {"idle", "loop"}
    /\ login.called <=> (calls > 0 /\ use_la_login)
    /\ ~login.called => login.reqs = 0
    /\ login.logged0 => (login.reqs = 0 /\ la_logged_in)
    /\ (pc = "idle" /\ calls > 0) =>
          AttemptedListings = Scrapable(matches0, 1, max_to_scrape)

\* a call whose login was rejected (both requests sent, session not logged
\* in) has finished and scraped a LiveAuctioneers listing
C21_Witness ==
    /\ pc = "idle"
    /\ login.called
    /\ login.reqs = 2
    /\ ~la_logged_in
    /\ \E j \in 1..Len(events) :
          /\ events[j].how = "scrape"
          /\ Host(events[j].key) = D_liveauctioneers

\* ------------------------------------------------------------------------
\* The auction extractors and the auction branch of the try block on their
\* own
\* ------------------------------------------------------------------------
M_900 == <<"$", "9", "0", "0">>

M_1500 == <<"$", "1", ",", "5", "0", "0">>

M_600 == <<"$", "6", "0", "0">>

\* the model answers {"low_estimate": "$1,500", "high_estimate": "$900", "reserve": null}
G_inverted == [secret |-> TRUE, tries |-> <<Try(TRUE, GData(Val(M_1500), Val(M_900), NoneV))>>]

\* the model answers {"low_estimate": null, "high_estimate": "$600", "reserve": null}
G_high == [secret |-> TRUE, tries |-> <<Try(TRUE, GData(NoneV, Val(M_600), NoneV))>>]

ExtractHosts == {D_liveauctioneers, D_bidsquare, D_sothebys}

ExtractInit ==
    /\ RunIdle
    /\ arg \in {[host |-> h, html |-> p, use |-> u, g |-> g] :
                   h \in ExtractHosts, p \in EstimatePages, u \in BOOLEAN,
                   g \in {NoGemini, G_inverted, G_high}}
    /\ out = NoOut

\* _get_auction_estimates_by_host(host, html)
CallAuctionEstimates ==
    /\ out = NoOut
    /\ out' = [fn |-> "_get_auction_estimates_by_host", r |-> Estimates(arg.host, arg.html)]
    /\ UNCHANGED <<run_vars, arg>>

\* the try block of enrich_matches_with_prices on a fetched auction page
CallPriceUpdate ==
    /\ out = NoOut
    /\ out' = [fn |-> "PriceUpdate",
               r |-> PriceUpdate(StatusUpdate(200), "auction", arg.host, arg.html, arg.use, arg.g)]
    /\ UNCHANGED <<run_vars, arg>>

ExtractNext ==
    \/ CallAuctionEstimates
    \/ CallPriceUpdate

SpecExtract == ExtractInit /\ [][ExtractNext]_vars

\* the page state is parsed and names a low and a high estimate, in a form
\* that the key scan over the raw page reads as well
HasStructured(html) ==
    \E nd \in {_parse_next_data_json(html)} :
        /\ _walk_find_numbers(nd, LowKeys) # <<>>
        /\ _walk_find_numbers(nd, HighKeys) # <<>>
        /\ KeyScan(AllPairs(html), LowKeys) # <<>>
        /\ KeyScan(AllPairs(html), HighKeys) # <<>>

\* the low and high that the structured fields give
StructuredRange(html) ==
    On1(_parse_next_data_json(html), LAMBDA nd :
        <<_sanitize_money(NumV(MinDec(_walk_find_numbers(nd, LowKeys)))),
          _sanitize_money(NumV(MinDec(_walk_find_numbers(nd, HighKeys))))>>)

\* the cleaned text carries a dollar range
HasTextRange(html) == _extract_text_estimate_range(_clean_html_text(html)) # <<NoneM, NoneM>>

\* C22: on a liveauctioneers.com or bidsquare.com page that carries both
\* structured low/high estimate fields and a dollar range in its text, the
\* low and high returned are those of the structured fields.
C22_StructuredPreferred ==
    (/\ out.fn = "_get_auction_estimates_by_host"
     /\ arg.host \in {D_liveauctioneers, D_bidsquare}
     /\ HasStructured(arg.html)
     /\ HasTextRange(arg.html)) =>
        <<out.r[1], out.r[2]>> = StructuredRange(arg.html)

\* ------------------------------------------------------------------------
\* _gemini_json step by step
\* ------------------------------------------------------------------------
\* the largest value of the retries argument
MaxRetries == 3

\* what the i-th generate_content + json.loads does; calls beyond those
\* listed fail
Attempt(tries, i) == IF i \in DOMAIN tries THEN tries[i] ELSE Try(FALSE, NoData)

\* a faulty variant of the loop bound: one attempt too many
InRangeInclusive(i, retries) == i <= retries

\* for i in range(retries): the 0-based i is an index of the loop
InRange(i, retries) == i < retries

\* time.sleep(1.0 * (2 ** i)), in seconds
Backoff(i) == 2 ^ i

\* the position of a call of _gemini_json: pc is "loop", "returned" or
\* "raised", i the loop index, calls the generate_content calls made, slept
\* the seconds slept, data the value returned
Json(at, i, n, slept, data) ==
    [fn |-> "_gemini_json", pc |-> at, i |-> i, calls |-> n, slept |-> slept, data |-> data]

GeminiInit ==
    /\ RunIdle
    /\ arg \in {[secret |-> k, retries |-> n, tries |-> t] :
                   k \in BOOLEAN, n \in 0..MaxRetries,
                   t \in [1..MaxRetries ->
                            {Try(FALSE, NoData), Try(TRUE, NoData),
                             Try(TRUE, GData(Val(M_900), Val(M_1500), NoneV))}]}
    /\ out = NoOut

\* line 191: model = _gemini_model(), which raises without the API key
GeminiModel ==
    /\ out = NoOut
    /\ out' = Json(IF arg.secret THEN "loop" ELSE "raised", 0, 0, 0, NoData)
    /\ UNCHANGED <<run_vars, arg>>

\* lines 193-196: an attempt succeeds and its value is returned
GeminiReturn ==
    /\ out # NoOut
    /\ out.pc = "loop"
    /\ InRange(out.i, arg.retries)
    /\ Attempt(arg.tries, out.i + 1).ok
    /\ out' = Json("returned", out.i, out.calls + 1, out.slept, Attempt(arg.tries, out.i + 1).data)
    /\ UNCHANGED <<run_vars, arg>>

\* lines 193-199: an attempt raises; sleep and go on
GeminiRetry ==
    /\ out # NoOut
    /\ out.pc = "loop"
    /\ InRange(out.i, arg.retries)
    /\ ~Attempt(arg.tries, out.i + 1).ok
    /\ out' = Json("loop", out.i + 1, out.calls + 1, out.slept + Backoff(out.i), NoData)
    /\ UNCHANGED <<run_vars, arg>>

\* line 200: the loop is over, RuntimeError
GeminiRaise ==
    /\ out # NoOut
    /\ out.pc = "loop"
    /\ ~InRange(out.i, arg.retries)
    /\ out' = Json("raised", out.i, out.calls, out.slept, NoData)
    /\ UNCHANGED <<run_vars, arg>>

GeminiNext ==
    \/ GeminiModel
    \/ GeminiReturn
    \/ GeminiRetry
    \/ GeminiRaise

\* the interpreter keeps running the call until it returns or raises
SpecGemini == GeminiInit /\ [][GeminiNext]_vars /\ WF_vars(GeminiNext)

GeminiDone == out # NoOut /\ out.pc \in {"returned", "raised"}

\* the attempts before the n-th all failed
FailedBefore(n) == \A k \in 1..(n - 1) : ~Attempt(arg.tries, k).ok

GeminiBounded ==
    out # NoOut =>
        /\ out.calls <= arg.retries
        /\ out.slept = 2 ^ (IF out.pc = "returned" THEN out.calls - 1 ELSE out.calls) - 1
        /\ out.pc = "returned" =>
              /\ out.calls >= 1
              /\ Attempt(arg.tries, out.calls).ok
              /\ FailedBefore(out.calls)
              /\ out.data = Attempt(arg.tries, out.calls).data
        /\ (out.pc = "raised" /\ arg.secret) =>
              /\ out.calls = arg.retries
              /\ FailedBefore(arg.retries + 1)
        /\ (GeminiDone /\ arg.retries = GEMINI_RETRIES) =>
              \E r \in {_gemini_json(arg)} :
                  /\ r.raised <=> out.pc = "raised"
                  /\ r.calls = out.calls
                  /\ r.data = out.data

\* C23: _gemini_json makes at most `retries` model calls, sleeping 1, 2, 4,
\* ... seconds after the failures; it returns the value of the first
\* attempt that succeeds and makes no call after it, raises once `retries`
\* attempts have failed, and always comes to an end.
C23_BoundedRetries == []GeminiBounded /\ <>GeminiDone

\* with retries = 3 the first attempt failed, the second succeeded and was
\* returned, though a third would have succeeded too
C23_Witness ==
    /\ out # NoOut
    /\ out.fn = "_gemini_json"
    /\ out.pc = "returned"
    /\ arg.retries = 3
    /\ out.calls = 2
    /\ out.slept = 1
    /\ Attempt(arg.tries, 3).ok

\* ------------------------------------------------------------------------
\* Order of the estimates
\* ------------------------------------------------------------------------
\* low and high, when both are set, are in order
LowHighOrdered(low, high) ==
    (low # NoneM /\ high # NoneM) =>
        ~DecLess(_to_decimal_money(StrV(high)), _to_decimal_money(StrV(low)))

\* C24: whenever an auction listing ends enrichment with both auction_low
\* and auction_high set, low <= high, whichever of the structured fields,
\* the raw-page key patterns, the text range and the generative fallback
\* set them.
C24_LowAtMostHigh ==
    /\ \A i \in 1..Len(matches) :
          matches[i].kind = "auction" =>
              LowHighOrdered(matches[i].auction_low, matches[i].auction_high)
    /\ (out # NoOut /\ out.fn = "PriceUpdate") =>
          LowHighOrdered(out.r.update.auction_low, out.r.update.auction_high)

====
